---- MODULE Spec2Model ----
(***************************************************************************)
(* Model of the editorial selection engine of wikipedia_digest_email.py:   *)
(* the diversity-constrained selector (select_four), the archive           *)
(* resolution chain (_resolve_archive_url), and the seen-items ledger      *)
(* together with the run (main) that loads, filters against and saves it.  *)
(***************************************************************************)
EXTENDS Integers, Sequences, FiniteSets, TLC

VARIABLES
    ranked,        \* select_four: the argument `ranked`
    admitted,      \* select_four: local `selected` when line 1590 is reached
    selected,      \* select_four: the returned list
    selPc          \* "pool" while the pool is being drawn, "done" after the call

selVars == <<ranked, admitted, selected, selPc>>

VARIABLES
    original_url,  \* _resolve_archive_url: the argument
    best_url,      \* _resolve_archive_url: local best_url
    article_text,  \* _resolve_archive_url: local article_text
    archPc,        \* position in the chain, "Raised" if an exception escaped
    archLog        \* the steps attempted so far, in order, with what each found

archVars == <<original_url, best_url, article_text, archPc, archLog>>

VARIABLES
    today,             \* datetime.date.today(), as a day number
    file,              \* seen_items.json on disk
    seen,              \* main: the registry dict returned by load_seen
    loaded,            \* the registry as load_seen returned it in this run
    seen_wiki_titles,  \* main: set of titles of the registry
    seen_obit_urls,    \* main: set of obituary URLs of the registry
    candidates,        \* main: result of fetch_candidates
    fresh_candidates,  \* main: the pool that goes on to scoring
    obituaries,        \* main: the obituary list of the digest
    obitFailed,        \* the obituary section raised in this run
    emailed,           \* send_email returned in this run
    writes,            \* number of times this run wrote seen_items.json
    runPc,             \* position of the run in main
    exitCause,         \* why the run ended, "" while it runs
    runNo              \* number of the run

runVars == <<today, file, seen, loaded, seen_wiki_titles, seen_obit_urls, candidates,
             fresh_candidates, obituaries, obitFailed, emailed, writes, runPc,
             exitCause, runNo>>

VARIABLES
    extract,       \* _split_sections / extract_anecdote: the argument `extract`
    signals,       \* extract_anecdote: the argument `signals`
    sections,      \* result of _split_sections(extract)
    resplit,       \* result of _split_sections on the sections joined again
    snippets,      \* result of extract_anecdote(extract, signals)
    tried,         \* extract_anecdote: the sections of `pool` the loop entered, in order
    usedFallback,  \* extract_anecdote: the branch of line 921 was taken
    textPc         \* "doc" while the document is being drawn, "done" after the call

textVars == <<extract, signals, sections, resplit, snippets, tried, usedFallback, textPc>>

VARIABLES
    score_text,    \* score_biography / _score_obituary_text: the argument
    bioScores,     \* what the calls of score_biography on text returned, in order
    obitScores,    \* what the calls of _score_obituary_text on text returned, in order
    scorePc        \* "text" while the text is being drawn, "scoring" after the first call

scoreVars == <<score_text, bioScores, obitScores, scorePc>>

VARIABLES
    call,          \* the network-bound call in progress
    attempts,      \* what each attempt of the call ran into, in order
    slept,         \* the time.sleep calls of the call, in order
    fetched,       \* what the call gave its caller
    finished,      \* the calls that have returned, in order
    fetchPc        \* "ready", "calling"

fetchVars == <<call, attempts, slept, fetched, finished, fetchPc>>

VARIABLES
    item_source,   \* fetch_obituaries: item["source"]
    archive_url,   \* fetch_obituaries: item["archive_url"]
    itemPc         \* "resolving" until the item has its link, then "linked"

itemVars == <<item_source, archive_url, itemPc>>

VARIABLES
    obit_text,      \* _extract_teaser: the argument `text`, as its paragraphs
    teaser_signals, \* _extract_teaser: the argument `signals`
    teaser,         \* what _extract_teaser(obit_text, teaser_signals) returned
    teaserPc        \* "text" while the text is being drawn, "done" after the call

teaserVars == <<obit_text, teaser_signals, teaser, teaserPc>>

extVars == <<textVars, scoreVars, fetchVars, itemVars, teaserVars>>

vars == <<selVars, archVars, runVars, extVars>>

(***************************************************************************)
(* Bounds of the model.                                                    *)
(***************************************************************************)
MaxPool == 7
MaxTitlesWithEqual == 3

(***************************************************************************)
(* Literals of select_four.                                                *)
(***************************************************************************)
DigestSize == 4
EraCap == 2
RelaxThreshold == 6

Min(a, b) == IF a <= b THEN a ELSE b

SeqToSet(s) == {s[i] : i \in 1..Len(s)}

(***************************************************************************)
(* Strings are sequences of characters where the code parses them.         *)
(* int(birth_year): ValueError on anything that is not a run of digits.    *)
(***************************************************************************)
Digits == <<"0", "1", "2", "3", "4", "5", "6", "7", "8", "9">>

DigitValue(ch) == (CHOOSE i \in 1..10 : Digits[i] = ch) - 1

IsDigitString(s) == Len(s) > 0 /\ \A i \in 1..Len(s) : \E d \in 1..10 : Digits[d] = s[i]

RECURSIVE IntOf(_)
IntOf(s) == IF Len(s) = 0 THEN 0
            ELSE 10 * IntOf(SubSeq(s, 1, Len(s) - 1)) + DigitValue(s[Len(s)])

\* A variant that buckets the boundary year 1700 with the earlier era.
EraOffByOne(birth_year) ==
    IF ~IsDigitString(birth_year) THEN "unknown"
    ELSE LET y == IntOf(birth_year) IN
         IF y <= 1700 THEN "pre-1700"
         ELSE IF y < 1850 THEN "1700-1849"
         ELSE IF y < 1940 THEN "1850-1939"
         ELSE "modern"

_era(birth_year) ==
    IF ~IsDigitString(birth_year) THEN "unknown"
    ELSE LET y == IntOf(birth_year) IN
         IF y < 1700 THEN "pre-1700"
         ELSE IF y < 1850 THEN "1700-1849"
         ELSE IF y < 1940 THEN "1850-1939"
         ELSE "modern"

Eras == {"pre-1700", "1700-1849", "1850-1939", "modern", "unknown"}

(***************************************************************************)
(* _diversity_key: the description is a sequence of words and `kw in desc` *)
(* is read as "kw is one of the words".  The keyword tables keep the       *)
(* order of the source and its first entries.                              *)
(***************************************************************************)
nationalities == <<"american", "british", "english", "french">>

field_map == << [field |-> "politics",   keywords |-> {"politician", "president"}],
                [field |-> "military",   keywords |-> {"general", "admiral"}],
                [field |-> "arts",       keywords |-> {"painter", "sculptor"}],
                [field |-> "literature", keywords |-> {"author", "writer"}] >>

RECURSIVE FirstNationality(_, _)
FirstNationality(i, desc) ==
    IF i > Len(nationalities) THEN "other"
    ELSE IF nationalities[i] \in SeqToSet(desc) THEN nationalities[i]
    ELSE FirstNationality(i + 1, desc)

RECURSIVE FirstField(_, _)
FirstField(i, desc) ==
    IF i > Len(field_map) THEN "other"
    ELSE IF field_map[i].keywords \cap SeqToSet(desc) # {} THEN field_map[i].field
    ELSE FirstField(i + 1, desc)

_diversity_key(candidate) ==
    <<FirstNationality(1, candidate.description), FirstField(1, candidate.description)>>

(***************************************************************************)
(* Pools handed to select_four.  A candidate is the dict built by          *)
(* fetch_candidates and main: title, birth_year, description.  A fresh     *)
(* candidate gets the next unused title; a pool may also hold the same     *)
(* record again (an equal dict).                                           *)
(***************************************************************************)
KindList ==
    << [birth_year |-> <<"1", "6", "5", "0">>, description |-> <<"american", "politician">>],
       [birth_year |-> <<"1", "6", "9", "9">>, description |-> <<"british", "general">>],
       [birth_year |-> <<"2", "7", "2">>,      description |-> <<"french", "painter">>],
       [birth_year |-> <<"1", "7", "0", "0">>, description |-> <<"british", "american", "president">>],
       [birth_year |-> <<"?">>,                description |-> <<>>] >>

Kinds == SeqToSet(KindList)

Candidate(title, kind) ==
    [title |-> title, birth_year |-> kind.birth_year, description |-> kind.description]

\* _era and _diversity_key of the candidates above, evaluated once.
BirthYears == {k.birth_year : k \in Kinds}

Descriptions == {k.description : k \in Kinds}

EraOf == [b \in BirthYears |-> _era(b)]

KeyOf == [d \in Descriptions |-> _diversity_key([description |-> d])]

(***************************************************************************)
(* select_four.                                                            *)
(***************************************************************************)
\* State of the first loop: selected, era_counts, div_key_used.
LoopInit == [selected |-> <<>>, era_counts |-> [e \in Eras |-> 0], div_key_used |-> {}]

\* A variant of the era test that lets a third candidate of an era through.
EraCapReachedLoose(st, era, pool) ==
    st.era_counts[era] > EraCap /\ Len(pool) > RelaxThreshold

\* A variant of the era test that already applies to a pool of 6.
EraCapReachedFromSix(st, era, pool) ==
    st.era_counts[era] >= EraCap /\ Len(pool) >= RelaxThreshold

\* Line 1578: era_counts.get(era, 0) >= 2 and len(ranked) > 6.
EraCapReached(st, era, pool) ==
    st.era_counts[era] >= EraCap /\ Len(pool) > RelaxThreshold

\* A variant of the key test that relaxes one pool size too early.
DivKeyUsedLoose(st, dk, pool) ==
    dk \in st.div_key_used /\ Len(pool) > RelaxThreshold + 1

\* Line 1580: dk in div_key_used and len(ranked) > 6.
DivKeyUsed(st, dk, pool) ==
    dk \in st.div_key_used /\ Len(pool) > RelaxThreshold

\* Lines 1574-1588: the constrained greedy walk, from index i on.
RECURSIVE ConstrainedWalk(_, _, _)
ConstrainedWalk(pool, i, st) ==
    IF i > Len(pool) THEN st
    ELSE LET p   == pool[i]
             era == EraOf[p.birth_year]
             dk  == KeyOf[p.description]
         IN  IF EraCapReached(st, era, pool)
             THEN ConstrainedWalk(pool, i + 1, st)
             ELSE IF DivKeyUsed(st, dk, pool)
             THEN ConstrainedWalk(pool, i + 1, st)
             ELSE LET st2 == [selected     |-> Append(st.selected, p),
                              era_counts   |-> [st.era_counts EXCEPT ![era] = @ + 1],
                              div_key_used |-> st.div_key_used \cup {dk}]
                  IN  IF Len(st2.selected) = DigestSize THEN st2
                      ELSE ConstrainedWalk(pool, i + 1, st2)

ConstrainedPass(pool) == ConstrainedWalk(pool, 1, LoopInit).selected

\* Lines 1591-1596: the fill loop; `p not in selected` compares records by value.
RECURSIVE FillWalk(_, _, _)
FillWalk(pool, i, sel) ==
    IF i > Len(pool) THEN sel
    ELSE LET sel2 == IF pool[i] \notin SeqToSet(sel) THEN Append(sel, pool[i]) ELSE sel
         IN  IF Len(sel2) = DigestSize THEN sel2
             ELSE FillWalk(pool, i + 1, sel2)

\* A fill that takes the top of the pool again, selected or not.
FillPassFromTop(pool, sel) ==
    IF Len(sel) < DigestSize THEN sel \o SubSeq(pool, 1, DigestSize - Len(sel)) ELSE sel

\* Lines 1590-1596.
FillPass(pool, sel) == IF Len(sel) < DigestSize THEN FillWalk(pool, 1, sel) ELSE sel

\* Line 1598: selected[:4].
FirstFour(sel) == SubSeq(sel, 1, Min(DigestSize, Len(sel)))

select_four(pool) ==
    IF Len(pool) <= DigestSize THEN pool
    ELSE FirstFour(FillPass(pool, ConstrainedPass(pool)))

SelectIdle ==
    /\ ranked = <<>>
    /\ admitted = <<>>
    /\ selected = <<>>
    /\ selPc = "idle"

ArchiveIdle ==
    /\ original_url = <<>>
    /\ best_url = <<>>
    /\ article_text = <<>>
    /\ archPc = "idle"
    /\ archLog = <<>>

RunIdle ==
    /\ today = 0
    /\ file = [kind |-> "missing"]
    /\ seen = <<>>
    /\ loaded = <<>>
    /\ seen_wiki_titles = {}
    /\ seen_obit_urls = {}
    /\ candidates = <<>>
    /\ fresh_candidates = <<>>
    /\ obituaries = <<>>
    /\ obitFailed = FALSE
    /\ emailed = FALSE
    /\ writes = 0
    /\ runPc = "idle"
    /\ exitCause = ""
    /\ runNo = 0

TextIdle ==
    /\ extract = <<>>
    /\ signals = <<>>
    /\ sections = <<>>
    /\ resplit = <<>>
    /\ snippets = <<>>
    /\ tried = <<>>
    /\ usedFallback = FALSE
    /\ textPc = "idle"

ScoreIdle ==
    /\ score_text = <<>>
    /\ bioScores = <<>>
    /\ obitScores = <<>>
    /\ scorePc = "idle"

FetchIdle ==
    /\ call = ""
    /\ attempts = <<>>
    /\ slept = <<>>
    /\ fetched = ""
    /\ finished = <<>>
    /\ fetchPc = "idle"

ItemIdle ==
    /\ item_source = ""
    /\ archive_url = <<>>
    /\ itemPc = "idle"

TeaserIdle ==
    /\ obit_text = <<>>
    /\ teaser_signals = <<>>
    /\ teaser = <<>>
    /\ teaserPc = "idle"

ExtIdle == TextIdle /\ ScoreIdle /\ FetchIdle /\ ItemIdle /\ TeaserIdle

InitSelect ==
    /\ ranked = <<>>
    /\ admitted = <<>>
    /\ selected = <<>>
    /\ selPc = "pool"
    /\ ArchiveIdle
    /\ RunIdle
    /\ ExtIdle

Titles(pool) == {pool[i].title : i \in 1..Len(pool)}

\* One more candidate in the ranked pool, with a title of its own.  Pools that
\* hold equal records are drawn with at most MaxTitlesWithEqual titles.
AddCandidate ==
    /\ selPc = "pool"
    /\ Len(ranked) < MaxPool
    /\ \/ Cardinality(Titles(ranked)) = Len(ranked)
       \/ Cardinality(Titles(ranked)) < MaxTitlesWithEqual
    /\ \E k \in Kinds : ranked' = Append(ranked, Candidate(Len(ranked) + 1, k))
    /\ UNCHANGED <<admitted, selected, selPc, archVars, runVars, extVars>>

\* One more candidate equal to the one ranked just above it.
AddEqualCandidate ==
    /\ selPc = "pool"
    /\ Len(ranked) \in 1..(MaxPool - 1)
    /\ Cardinality(Titles(ranked)) <= MaxTitlesWithEqual
    /\ ranked' = Append(ranked, ranked[Len(ranked)])
    /\ UNCHANGED <<admitted, selected, selPc, archVars, runVars, extVars>>

\* The call select_four(ranked).
SelectFour ==
    /\ selPc = "pool"
    /\ selected' = select_four(ranked)
    /\ admitted' = IF Len(ranked) <= DigestSize THEN ranked ELSE ConstrainedPass(ranked)
    /\ selPc' = "done"
    /\ UNCHANGED <<ranked, archVars, runVars, extVars>>

NextSelect == AddCandidate \/ AddEqualCandidate \/ SelectFour

SpecSelect == InitSelect /\ [][NextSelect]_vars

(***************************************************************************)
(* Properties of select_four.                                              *)
(***************************************************************************)
EraCount(sel, e) == Cardinality({i \in 1..Len(sel) : EraOf[sel[i].birth_year] = e})

WithinEraCap(sel) == \A e \in Eras : EraCount(sel, e) <= EraCap

OnePerDiversityKey(sel) ==
    \A i, j \in 1..Len(sel) : i # j => KeyOf[sel[i].description] # KeyOf[sel[j].description]

\* C1: select_four returns exactly min(4, len(pool)) candidates for every
\* pool, pools holding equal records included, and a pool of at most 4 is
\* returned unchanged.
C1_ExactSize ==
    selPc = "done" =>
        /\ Len(selected) = Min(DigestSize, Len(ranked))
        /\ (Len(ranked) <= DigestSize => selected = ranked)

AcceptLen == 500

OriginalUrls == { <<"https://", "www.nytimes.com/", "obit-a">>,
                  <<"https://", "www.theguardian.com/", "obit-b">> }

\* f"https://archive.ph/newest/{original_url}"
ArchiveNewest(url) == <<"https://", "archive.ph/", "newest/">> \o url

\* resp.url after the mirror's redirects: a snapshot on archive.ph, or a
\* page of another host.
MirrorFinalUrls(url) == { <<"https://", "archive.ph/", "AbC12">>,
                          <<"https://", "archive.today/", "search/">> \o url }

\* closest["url"] of the availability API.
SnapshotUrl(url) == <<"http://", "web.archive.org/", "web/2024/">> \o url

Contains(url, part) == part \in SeqToSet(url)

RECURSIVE SumLen(_)
SumLen(t) == IF Len(t) = 0 THEN 0 ELSE t[1].len + SumLen(Tail(t))

\* len(article_text)
TextLen(t) == IF Len(t) = 0 THEN 0 ELSE SumLen(t) + (Len(t) - 1)

\* The text a step extracts from a page of n characters of prose.
Text(step, n) == IF n = 0 THEN <<>> ELSE <<[from |-> step, len |-> n]>>

\* Lengths a fetched page strips down to.
PageLens == {0, 100, 499, 500}

\* Lengths of an og:description; the pattern asks for 20 characters or more.
OgLens == {20, 400}

\* What a step may raise.
Exceptions == {"URLError", "ValueError"}

\* A handler that lets everything but network errors through.
CaughtOnlyNetworkErrors(exc) == exc = "URLError"

\* `except Exception: pass` (lines 1131, 1154, 1169, 1187).
Caught(exc) == exc \in Exceptions

\* A threshold test that lets a text of exactly 500 characters fall through.
AcceptedAbove(text) == TextLen(text) > AcceptLen

\* `if len(article_text) >= 500: return` (lines 1134, 1157, 1172).
Accepted(text) == TextLen(text) >= AcceptLen

\* What the world may answer to each step.
MirrorOutcomes(url) ==
    [kind : {"raise"}, exc : Exceptions]
    \cup [kind : {"page"}, final_url : MirrorFinalUrls(url), len : PageLens]

SnapshotOutcomes ==
    [kind : {"raise"}, exc : Exceptions]
    \cup [kind : {"unavailable"}]
    \cup [kind : {"page"}, len : PageLens]

DirectOutcomes ==
    [kind : {"raise"}, exc : Exceptions]
    \cup [kind : {"page"}, len : PageLens]

MetaOutcomes ==
    [kind : {"raise"}, exc : Exceptions]
    \cup [kind : {"none"}]
    \cup [kind : {"og"}, len : OgLens]

\* A mirror step that takes over the final URL whatever host it is on.
MirrorStepAnyHost(held, o) ==
    IF o.kind = "page"
    THEN [best_url |-> o.final_url, article_text |-> Text("mirror", o.len)]
    ELSE held

\* Lines 1122-1130: the mirror's page is taken only from an archive.ph URL.
MirrorStep(held, o) ==
    IF o.kind = "page" /\ Contains(o.final_url, "archive.ph/")
    THEN [best_url |-> o.final_url, article_text |-> Text("mirror", o.len)]
    ELSE held

\* A snapshot step that takes over the snapshot whatever its length.
SnapshotStepNoCompare(held, o, url) ==
    IF o.kind = "page"
    THEN [best_url |-> SnapshotUrl(url), article_text |-> Text("snapshot", o.len)]
    ELSE held

\* Lines 1138-1153: the snapshot replaces the held text only if longer.
SnapshotStep(held, o, url) ==
    IF o.kind = "page" /\ o.len > TextLen(held.article_text)
    THEN [best_url |-> SnapshotUrl(url), article_text |-> Text("snapshot", o.len)]
    ELSE held

\* A direct step that also takes over a page as long as the held text.
DirectStepOnTie(held, o, url) ==
    IF o.kind = "page" /\ o.len >= TextLen(held.article_text)
    THEN [best_url |-> url, article_text |-> Text("direct", o.len)]
    ELSE held

\* Lines 1161-1168: the original page replaces the held text only if longer.
DirectStep(held, o, url) ==
    IF o.kind = "page" /\ o.len > TextLen(held.article_text)
    THEN [best_url |-> url, article_text |-> Text("direct", o.len)]
    ELSE held

\* A meta step that drops the text held so far.
MetaStepReplaces(held, o, url) ==
    IF o.kind = "og"
    THEN [best_url |-> url, article_text |-> Text("meta", o.len)]
    ELSE held

\* A meta step that leaves the resolved URL where the earlier steps put it.
MetaStepKeepsUrl(held, o, url) ==
    IF o.kind = "og"
    THEN [best_url |-> held.best_url,
          article_text |-> Text("meta", o.len) \o held.article_text]
    ELSE held

\* Lines 1177-1186: og:description is put in front of the held text.
MetaStep(held, o, url) ==
    IF o.kind = "og"
    THEN [best_url |-> url, article_text |-> Text("meta", o.len) \o held.article_text]
    ELSE held

\* What a step obtained by itself, in characters.
Obtained(step, o) ==
    CASE o.kind = "page" /\ step = "mirror" ->
             IF Contains(o.final_url, "archive.ph/") THEN o.len ELSE 0
      [] o.kind = "page" /\ step # "mirror" -> o.len
      [] o.kind = "og" -> o.len
      [] OTHER -> 0

\* The step fetched nothing: it raised, the mirror led elsewhere, no snapshot
\* exists, or the page has no description.
Failed(o) ==
    \/ o.kind \in {"raise", "unavailable", "none"}
    \/ (o.kind = "page" /\ "final_url" \in DOMAIN o /\ ~Contains(o.final_url, "archive.ph/"))

Held == [best_url |-> best_url, article_text |-> article_text]

LogEntry(step, o) ==
    [step |-> step, held |-> TextLen(article_text), got |-> Obtained(step, o), failed |-> Failed(o)]

\* One step of the chain: the try block, its handler and the length test
\* that follows it.
ChainStep(step, o, new, next) ==
    /\ archLog' = Append(archLog, LogEntry(step, o))
    /\ IF o.kind = "raise" /\ ~Caught(o.exc)
       THEN /\ archPc' = "Raised"
            /\ UNCHANGED <<best_url, article_text>>
       ELSE /\ best_url' = new.best_url
            /\ article_text' = new.article_text
            /\ archPc' = IF next = "Done" \/ Accepted(new.article_text) THEN "Done" ELSE next
    /\ UNCHANGED <<original_url, selVars, runVars, extVars>>

\* Lines 1118-1119.
InitArchive ==
    /\ original_url \in OriginalUrls
    /\ best_url = original_url
    /\ article_text = <<>>
    /\ archPc = "NotTried"
    /\ archLog = <<>>
    /\ SelectIdle
    /\ RunIdle
    /\ ExtIdle

\* Lines 1121-1135.
TryMirror ==
    /\ archPc = "NotTried"
    /\ \E o \in MirrorOutcomes(original_url) :
           ChainStep("mirror", o, MirrorStep(Held, o), "TriedMirror")

\* Lines 1137-1158.
TrySnapshot ==
    /\ archPc = "TriedMirror"
    /\ \E o \in SnapshotOutcomes :
           ChainStep("snapshot", o, SnapshotStep(Held, o, original_url), "TriedSnapshot")

\* Lines 1160-1173.
TryDirect ==
    /\ archPc = "TriedSnapshot"
    /\ \E o \in DirectOutcomes :
           ChainStep("direct", o, DirectStep(Held, o, original_url), "TriedDirect")

\* Lines 1175-1190.
TryMetaFallback ==
    /\ archPc = "TriedDirect"
    /\ \E o \in MetaOutcomes :
           ChainStep("meta", o, MetaStep(Held, o, original_url), "Done")

NextArchive == TryMirror \/ TrySnapshot \/ TryDirect \/ TryMetaFallback

SpecArchive == InitArchive /\ [][NextArchive]_vars

(***************************************************************************)
(* Properties of the archive chain.                                        *)
(***************************************************************************)
ChainOrder == <<"mirror", "snapshot", "direct", "meta">>

StepsAttempted == [i \in 1..Len(archLog) |-> archLog[i].step]

\* C3: the resolved URL is never empty, and when every step of a finished
\* chain failed it is the original URL and the text is empty.
C3_ResolvedUrlNonEmpty ==
    /\ archPc # "idle" => best_url # <<>>
    /\ (archPc = "Done" /\ \A i \in 1..Len(archLog) : archLog[i].failed) =>
           (best_url = original_url /\ article_text = <<>>)

\* All four steps were attempted and failed, by exception and otherwise.
C3_Witness ==
    /\ archPc = "Done"
    /\ Len(archLog) = 4
    /\ \A i \in 1..4 : archLog[i].failed
    /\ best_url = original_url
    /\ article_text = <<>>

\* C4: no exception escapes the chain, the held text never gets shorter from
\* one step to the next, and the returned text is at least as long as what
\* any attempted step obtained.
C4_BestTextNeverRaises ==
    /\ archPc # "Raised"
    /\ \A i, j \in 1..Len(archLog) : i <= j => archLog[i].held <= archLog[j].held
    /\ \A i \in 1..Len(archLog) :
           /\ archLog[i].held <= TextLen(article_text)
           /\ archPc = "Done" => archLog[i].got <= TextLen(article_text)

\* A finished chain in which a step raised and a later step obtained a text
\* shorter than the one already held.
C4_Witness ==
    /\ archPc = "Done"
    /\ \E i, j \in 1..Len(archLog) :
           /\ i < j
           /\ archLog[i].got > 0
           /\ archLog[j].got > 0
           /\ archLog[j].got < archLog[j].held
    /\ \E i \in 1..Len(archLog) : archLog[i].failed /\ archLog[i].got = 0

\* C5: the steps are attempted in the order mirror, snapshot, direct, meta,
\* each at most once, each only while the held text is below 500 characters,
\* and the chain is finished as soon as the held text reaches 500.
C5_FixedOrderEarlyExit ==
    /\ Len(archLog) <= Len(ChainOrder)
    /\ StepsAttempted = SubSeq(ChainOrder, 1, Len(archLog))
    /\ \A i \in 1..Len(archLog) : archLog[i].held < AcceptLen
    /\ TextLen(article_text) >= AcceptLen => archPc = "Done"
    /\ archPc = "NotTried" <=> (archLog = <<>> /\ original_url # <<>>)
    /\ archPc = "TriedMirror" => StepsAttempted = <<"mirror">>
    /\ archPc = "TriedSnapshot" => StepsAttempted = <<"mirror", "snapshot">>
    /\ archPc = "TriedDirect" => StepsAttempted = <<"mirror", "snapshot", "direct">>
    /\ (archPc = "Done" /\ TextLen(article_text) < AcceptLen) => StepsAttempted = ChainOrder

\* The chain finished at the snapshot step, with exactly 500 characters held.
C5_Witness ==
    /\ archPc = "Done"
    /\ StepsAttempted = <<"mirror", "snapshot">>
    /\ archLog[2].held > 0
    /\ TextLen(article_text) = AcceptLen

(***************************************************************************)
(* The seen-items ledger and the run (main).                               *)
(*                                                                         *)
(* Dates are day numbers: the ISO strings the code compares order the same *)
(* way.  A JSON object is a function from its keys.                        *)
(***************************************************************************)
_SEEN_RETENTION_DAYS == 90
MinFresh == 4
ObitsPerSource == 2
NoDate == -1

FirstDay == 200
MaxRuns == 2
MaxSkipped == 5

\* What a later run finds as today's date: the next day, or a day on which
\* everything saved before has left the retention window.
DayGaps == {1, _SEEN_RETENTION_DAYS + 1}

EmptyRegistry == [wikipedia |-> <<>>, obituaries |-> <<>>]

JsonObject(obj) == [kind |-> "json", data |-> [t |-> "object", obj |-> obj]]

Obit(n) == [link   |-> IF n = 1 THEN <<"https://", "www.nytimes.com/", "obit-a">>
                       ELSE <<"https://", "www.theguardian.com/", "obit-b">>,
            name   |-> IF n = 1 THEN "A" ELSE "B",
            source |-> IF n = 1 THEN "NYT" ELSE "Guardian",
            total  |-> n]

\* seen_items.json as a first run may find it.
FilesAtStart ==
    { [kind |-> "missing"],
      [kind |-> "unreadable"],
      [kind |-> "invalid_json"],
      [kind |-> "json", data |-> [t |-> "array"]],
      JsonObject([obituaries |-> <<>>]),
      JsonObject([wikipedia |-> <<[date |-> FirstDay - 1]>>, obituaries |-> <<>>]),
      JsonObject(EmptyRegistry),
      JsonObject([wikipedia  |-> <<[title |-> 5, date |-> FirstDay - 1]>>,
                  obituaries |-> <<>>]),
      JsonObject([wikipedia  |-> << [title |-> 1, date |-> FirstDay - _SEEN_RETENTION_DAYS - 1],
                                    [title |-> 2, date |-> FirstDay - _SEEN_RETENTION_DAYS - 10],
                                    [title |-> 3, date |-> FirstDay - _SEEN_RETENTION_DAYS],
                                    [title |-> 4, date |-> FirstDay - 1],
                                    [title |-> 4] >>,
                  obituaries |-> << [url |-> Obit(1).link, name |-> "A",
                                     date |-> FirstDay - _SEEN_RETENTION_DAYS - 1],
                                    [url |-> <<"https://", "www.theguardian.com/", "obit-c">>,
                                     name |-> "C", date |-> FirstDay - 2] >>]) }

\* dict.get(key, []) on the registry.
Get(reg, key) == IF key \in DOMAIN reg THEN reg[key] ELSE <<>>

\* e.get("date", "")
DateOf(e) == IF "date" \in DOMAIN e THEN e.date ELSE NoDate

\* Lines 119-133: the exception the body of load_seen runs into, if any.
LoadException(f) ==
    CASE f.kind = "unreadable" -> "OSError"
      [] f.kind = "invalid_json" -> "JSONDecodeError"
      [] f.kind = "json" /\ f.data.t # "object" -> "AttributeError"
      [] OTHER -> "none"

\* Lines 109-133.
load_seen(f) ==
    IF f.kind = "missing" THEN EmptyRegistry
    ELSE IF LoadException(f) # "none" THEN EmptyRegistry
    ELSE f.data.obj

\* Lines 1783-1784: e["title"] and e["url"] of every entry.
SeenSetsRaise(reg) ==
    \/ \E i \in 1..Len(Get(reg, "wikipedia")) : "title" \notin DOMAIN Get(reg, "wikipedia")[i]
    \/ \E i \in 1..Len(Get(reg, "obituaries")) : "url" \notin DOMAIN Get(reg, "obituaries")[i]

SeenWikiTitles(reg) == {Get(reg, "wikipedia")[i].title : i \in 1..Len(Get(reg, "wikipedia"))}

SeenObitUrls(reg) == {Get(reg, "obituaries")[i].url : i \in 1..Len(Get(reg, "obituaries"))}

\* A filter that lets every fetched candidate through.
FreshOfNoFilter(cands, seenTitles) == cands

\* Line 1796.
FreshOf(cands, seenTitles) ==
    LET IsFresh(c) == c.title \notin seenTitles
    IN  SelectSeq(cands, IsFresh)

\* A pool that stays filtered however few candidates are left.
ScoringPoolAlwaysFiltered(cands, seenTitles) == FreshOf(cands, seenTitles)

\* Lines 1796-1810: the pool that goes on to scoring.
ScoringPool(cands, seenTitles) ==
    IF Len(FreshOf(cands, seenTitles)) < MinFresh THEN cands ELSE FreshOf(cands, seenTitles)

\* A prune that stops at the first entry it removes.
PruneFirstOnly(entries, cutoff) ==
    LET old == {i \in 1..Len(entries) : DateOf(entries[i]) < cutoff}
    IN  IF old = {} THEN entries
        ELSE LET k == CHOOSE i \in old : \A j \in old : i <= j
             IN  SubSeq(entries, 1, k - 1) \o SubSeq(entries, k + 1, Len(entries))

\* Lines 155-156: [e for e in entries if e.get("date", "") >= cutoff].
Prune(entries, cutoff) ==
    LET Kept(e) == DateOf(e) >= cutoff
    IN  SelectSeq(entries, Kept)

\* A cutoff one day short of the retention window.
CutoffShort(day) == day - _SEEN_RETENTION_DAYS + 1

\* Lines 142-144.
Cutoff(day) == day - _SEEN_RETENTION_DAYS

WikiEntries(titles, day) == [i \in 1..Len(titles) |-> [title |-> titles[i], date |-> day]]

ObitEntries(obits, day) ==
    [i \in 1..Len(obits) |-> [url |-> obits[i][1], name |-> obits[i][2], date |-> day]]

\* Lines 155-156: the prune step, on a registry that has both arrays.
PruneStep(reg, cutoff) ==
    [reg EXCEPT !.wikipedia  = Prune(@, cutoff),
                !.obituaries = Prune(@, cutoff)]

\* Lines 146-152: the append loops.
Appended(reg, new_wiki_titles, new_obit_urls, day) ==
    [reg EXCEPT !.wikipedia  = @ \o WikiEntries(new_wiki_titles, day),
                !.obituaries = @ \o ObitEntries(new_obit_urls, day)]

\* Lines 146-156 when both arrays exist.
AppendAndPrune(reg, new_wiki_titles, new_obit_urls, day) ==
    PruneStep(Appended(reg, new_wiki_titles, new_obit_urls, day), Cutoff(day))

\* Lines 146-156: seen["wikipedia"] or seen["obituaries"] raises KeyError.
SaveRaises(reg) == "wikipedia" \notin DOMAIN reg \/ "obituaries" \notin DOMAIN reg

\* The registry as the KeyError leaves it.
PartlySaved(reg, new_wiki_titles, new_obit_urls, day) ==
    IF "wikipedia" \notin DOMAIN reg THEN reg
    ELSE IF Len(new_obit_urls) > 0
         THEN [reg EXCEPT !.wikipedia = @ \o WikiEntries(new_wiki_titles, day)]
         ELSE [reg EXCEPT !.wikipedia = Prune(@ \o WikiEntries(new_wiki_titles, day), Cutoff(day))]

\* sorted(..., key=lambda x: -x["score"]["total"]): stable, best first.
RECURSIVE SortedByTotal(_)
SortedByTotal(items) ==
    IF Len(items) = 0 THEN <<>>
    ELSE LET rest == SortedByTotal(Tail(items))
             Better(o) == o.total > items[1].total
             NotBetter(o) == o.total <= items[1].total
         IN  SelectSeq(rest, Better) \o <<items[1]>> \o SelectSeq(rest, NotBetter)

FirstN(items, n) == SubSeq(items, 1, Min(n, Len(items)))

\* Lines 1429-1442.
select_obituaries(cands) ==
    LET IsNyt(o) == o.source = "NYT"
        IsGuardian(o) == o.source = "Guardian"
    IN  FirstN(SortedByTotal(SelectSeq(cands, IsNyt)), ObitsPerSource)
        \o FirstN(SortedByTotal(SelectSeq(cands, IsGuardian)), ObitsPerSource)

\* Lines 1879-1882.
FreshObits(cands, seenUrls) ==
    LET IsFresh(o) == o.link \notin seenUrls
    IN  SelectSeq(cands, IsFresh)

\* A handler of the obituary section that only catches network errors.
ObitCaughtOnlyNetworkErrors(exc) == exc = "URLError"

\* Line 1894: except Exception.
ObitCaught(exc) == exc \in Exceptions

\* What fetch_candidates may return: the people of the day, in the order of
\* the feed, with titles that are pairwise different (lines 219-223).
FetchResults == { <<>>, <<1, 2, 3>>, <<1, 2, 3, 4>>, <<1, 2, 3, 4, 5>>, <<5, 4, 3, 2, 1>> }

\* The same over a chain of runs: a short day and a day that shares one
\* person with it.
FetchResultsOfChain == { <<1, 2, 3>>, <<1, 4, 5, 6, 7>> }

CandidateOf(t) == Candidate(t, KindList[((t - 1) % Len(KindList)) + 1])

\* What fetch_obituaries may return.
ObitFeeds == { <<>>, <<Obit(1)>>, <<Obit(2), Obit(1)>> }

ObitFeedsOfChain == { <<Obit(1)>> }

Reverse(q) == [i \in 1..Len(q) |-> q[Len(q) + 1 - i]]

\* Lines 1856-1868: the pool after the randomised sort and the rich/dry
\* split; the jitter may produce any order, two of them are drawn.
Rankings(scored) == {scored, Reverse(scored)}

\* The candidates whose biography passed the length test of line 1818.
Without(pool, skipped) ==
    LET Kept(c) == c.title \notin skipped
    IN  SelectSeq(pool, Kept)

RunLocalsReset ==
    /\ seen' = <<>>
    /\ loaded' = <<>>
    /\ seen_wiki_titles' = {}
    /\ seen_obit_urls' = {}
    /\ candidates' = <<>>
    /\ fresh_candidates' = <<>>
    /\ obituaries' = <<>>
    /\ obitFailed' = FALSE
    /\ emailed' = FALSE
    /\ writes' = 0
    /\ exitCause' = ""
    /\ ranked' = <<>>
    /\ admitted' = <<>>
    /\ selected' = <<>>

InitRun ==
    /\ today = FirstDay
    /\ file \in FilesAtStart
    /\ seen = <<>>
    /\ loaded = <<>>
    /\ seen_wiki_titles = {}
    /\ seen_obit_urls = {}
    /\ candidates = <<>>
    /\ fresh_candidates = <<>>
    /\ obituaries = <<>>
    /\ obitFailed = FALSE
    /\ emailed = FALSE
    /\ writes = 0
    /\ runPc = "start"
    /\ exitCause = ""
    /\ runNo = 1
    /\ SelectIdle
    /\ ArchiveIdle
    /\ ExtIdle

\* Lines 1782-1788.
LoadSeen ==
    /\ runPc = "start"
    /\ seen' = load_seen(file)
    /\ loaded' = seen'
    /\ IF SeenSetsRaise(seen')
       THEN /\ runPc' = "raised"
            /\ exitCause' = "ledger_entry"
            /\ UNCHANGED <<seen_wiki_titles, seen_obit_urls>>
       ELSE /\ runPc' = "fetch"
            /\ seen_wiki_titles' = SeenWikiTitles(seen')
            /\ seen_obit_urls' = SeenObitUrls(seen')
            /\ UNCHANGED exitCause
    /\ UNCHANGED <<today, file, candidates, fresh_candidates, obituaries, obitFailed,
                   emailed, writes, runNo, selVars, archVars, extVars>>

\* Lines 1790-1810.
FetchAndFilter(results) ==
    /\ runPc = "fetch"
    /\ \E titles \in results :
           /\ candidates' = [i \in 1..Len(titles) |-> CandidateOf(titles[i])]
           /\ IF Len(titles) = 0
              THEN /\ runPc' = "exit1"
                   /\ exitCause' = "no_candidates"
                   /\ UNCHANGED fresh_candidates
              ELSE /\ runPc' = "score"
                   /\ fresh_candidates' = ScoringPool(candidates', seen_wiki_titles)
                   /\ UNCHANGED exitCause
    /\ UNCHANGED <<today, file, seen, loaded, seen_wiki_titles, seen_obit_urls, obituaries,
                   obitFailed, emailed, writes, runNo, selVars, archVars, extVars>>

\* Lines 1812-1870; at most maxSkipped biographies fail the length test.
ScoreRankSelect(maxSkipped) ==
    /\ runPc = "score"
    /\ \E skipped \in {S \in SUBSET Titles(fresh_candidates) : Cardinality(S) <= maxSkipped} :
           LET scored == Without(fresh_candidates, skipped)
           IN  IF Len(scored) = 0
               THEN /\ runPc' = "exit1"
                    /\ exitCause' = "no_scoreable"
                    /\ UNCHANGED <<ranked, admitted, selected>>
               ELSE /\ \E ordered \in Rankings(scored) :
                           /\ ranked' = ordered
                           /\ selected' = select_four(ordered)
                           /\ admitted' = IF Len(ordered) <= DigestSize THEN ordered
                                          ELSE ConstrainedPass(ordered)
                    /\ runPc' = "obits"
                    /\ UNCHANGED exitCause
    /\ UNCHANGED <<today, file, seen, loaded, seen_wiki_titles, seen_obit_urls, candidates,
                   fresh_candidates, obituaries, obitFailed, emailed, writes, runNo, selPc,
                   archVars, extVars>>

\* Lines 1872-1896.
ObituarySection(feeds) ==
    /\ runPc = "obits"
    /\ \/ \E exc \in Exceptions :
              /\ obitFailed' = TRUE
              /\ obituaries' = <<>>
              /\ IF ObitCaught(exc)
                 THEN runPc' = "send" /\ UNCHANGED exitCause
                 ELSE runPc' = "raised" /\ exitCause' = "obituary"
       \/ \E found \in feeds :
              /\ obitFailed' = FALSE
              /\ obituaries' = IF Len(FreshObits(found, seen_obit_urls)) > 0
                               THEN select_obituaries(FreshObits(found, seen_obit_urls))
                               ELSE <<>>
              /\ runPc' = "send"
              /\ UNCHANGED exitCause
    /\ UNCHANGED <<today, file, seen, loaded, seen_wiki_titles, seen_obit_urls, candidates,
                   fresh_candidates, emailed, writes, runNo, selVars, archVars, extVars>>

\* A delivery step that writes the ledger file itself once the mail is out.
SendEmailRecording ==
    /\ runPc = "send"
    /\ runPc' = "save"
    /\ emailed' = TRUE
    /\ file' = JsonObject(seen)
    /\ writes' = writes + 1
    /\ UNCHANGED <<today, seen, loaded, seen_wiki_titles, seen_obit_urls, candidates,
                   fresh_candidates, obituaries, obitFailed, exitCause, runNo, selVars,
                   archVars, extVars>>

\* Lines 1898-1901 and send_email (lines 1741-1763).
SendEmail ==
    /\ runPc = "send"
    /\ \E result \in {"no_sender", "no_recipient", "smtp_error", "sent"} :
           CASE result \in {"no_sender", "no_recipient"} ->
                    /\ runPc' = "exit1"
                    /\ exitCause' = "no_delivery_config"
                    /\ UNCHANGED emailed
             [] result = "smtp_error" ->
                    /\ runPc' = "raised"
                    /\ exitCause' = "smtp"
                    /\ UNCHANGED emailed
             [] OTHER ->
                    /\ runPc' = "save"
                    /\ emailed' = TRUE
                    /\ UNCHANGED exitCause
    /\ UNCHANGED <<today, file, seen, loaded, seen_wiki_titles, seen_obit_urls, candidates,
                   fresh_candidates, obituaries, obitFailed, writes, runNo, selVars, archVars, extVars>>

\* A list that names every scored candidate, chosen or not.
new_wikiOfRanked == [i \in 1..Len(ranked) |-> ranked[i].title]

\* Line 1904.
new_wiki == [i \in 1..Len(selected) |-> selected[i].title]

new_obits == [i \in 1..Len(obituaries) |-> <<obituaries[i].link, obituaries[i].name>>]

\* Lines 1903-1912 and save_seen (lines 136-167).
SaveSeen ==
    /\ runPc = "save"
    /\ IF SaveRaises(seen)
       THEN /\ seen' = PartlySaved(seen, new_wiki, new_obits, today)
            /\ runPc' = "raised"
            /\ exitCause' = "ledger_key"
            /\ UNCHANGED <<file, writes>>
       ELSE /\ seen' = AppendAndPrune(seen, new_wiki, new_obits, today)
            /\ runPc' = "done"
            /\ exitCause' = "returned"
            /\ \E written \in {"ok", "open_failed", "dump_failed"} :
                   CASE written = "ok" ->
                            file' = JsonObject(seen') /\ writes' = writes + 1
                     [] written = "dump_failed" ->
                            file' = [kind |-> "invalid_json"] /\ writes' = writes + 1
                     [] OTHER -> UNCHANGED <<file, writes>>
    /\ UNCHANGED <<today, loaded, seen_wiki_titles, seen_obit_urls, candidates,
                   fresh_candidates, obituaries, obitFailed, emailed, runNo, selVars, archVars, extVars>>

\* The scheduler starts the next run, on a later day.
NextRun ==
    /\ runPc \in {"done", "exit1", "raised"}
    /\ runNo < MaxRuns
    /\ \E gap \in DayGaps : today' = today + gap
    /\ runNo' = runNo + 1
    /\ runPc' = "start"
    /\ RunLocalsReset
    /\ UNCHANGED <<file, selPc, archVars, extVars>>

\* One run, from any ledger file.
NextOfRun ==
    \/ LoadSeen
    \/ FetchAndFilter(FetchResults)
    \/ ScoreRankSelect(MaxSkipped)
    \/ ObituarySection(ObitFeeds)
    \/ SendEmail
    \/ SaveSeen

SpecRun == InitRun /\ [][NextOfRun]_vars

\* A chain of runs in a fresh checkout, each run reading the ledger file the
\* runs before it left.
InitRuns == InitRun /\ file = [kind |-> "missing"]

NextOfRuns ==
    \/ LoadSeen
    \/ FetchAndFilter(FetchResultsOfChain)
    \/ ScoreRankSelect(0)
    \/ ObituarySection(ObitFeedsOfChain)
    \/ SendEmail
    \/ SaveSeen
    \/ NextRun

SpecRuns == InitRuns /\ [][NextOfRuns]_vars

(***************************************************************************)
(* Properties of the ledger and the run.                                   *)
(***************************************************************************)
\* The run has read the ledger and not yet written it.
BeforeSave == runPc \in {"fetch", "score", "obits", "send", "save"}

\* The run has chosen its biographies and not yet touched the registry.
Chosen == runPc \in {"obits", "send", "save"}

\* A ledger file that is not a registry of the documented shape.
Malformed(f) ==
    \/ f.kind \in {"unreadable", "invalid_json"}
    \/ f.kind = "json" /\ f.data.t # "object"
    \/ f.kind = "json" /\ f.data.t = "object"
         /\ (SaveRaises(f.data.obj) \/ SeenSetsRaise(f.data.obj))

\* C6: reading the ledger is never fatal: a run that found a missing,
\* unreadable or malformed ledger file works on the empty registry and
\* neither the read of the entries nor the save raises.
C6_LedgerReadNeverFatal ==
    /\ exitCause \notin {"ledger_entry", "ledger_key"}
    /\ (BeforeSave /\ (Malformed(file) \/ file.kind = "missing")) => loaded = EmptyRegistry

\* The entries of the ledger, as the run read it, for one title.
LedgerEntriesOf(t) ==
    {i \in 1..Len(Get(loaded, "wikipedia")) :
        /\ "title" \in DOMAIN loaded.wikipedia[i]
        /\ loaded.wikipedia[i].title = t}

InWindow(e) == DateOf(e) >= today - _SEEN_RETENTION_DAYS

BlockedTitle(t) == \E i \in LedgerEntriesOf(t) : InWindow(loaded.wikipedia[i])

UnseenFetched == {i \in 1..Len(candidates) : LedgerEntriesOf(candidates[i].title) = {}}

Cutoffs == (today - _SEEN_RETENTION_DAYS - 11)..(today + 1)

HasBothArrays(reg) == DOMAIN reg = {"wikipedia", "obituaries"}

\* C8: pruning is idempotent: for the registry the run holds and every cutoff,
\* the prune step applied twice gives what it gives applied once.
C8_PruneIdempotent ==
    HasBothArrays(seen) =>
        \A c \in Cutoffs : PruneStep(PruneStep(seen, c), c) = PruneStep(seen, c)

\* A save has pruned entries away, and pruning its registry again changes
\* nothing.
C8_Witness ==
    /\ runPc = "done"
    /\ Len(seen.wikipedia) < Len(loaded.wikipedia) + Len(selected)
    /\ Len(seen.obituaries) < Len(loaded.obituaries) + Len(obituaries)
    /\ PruneStep(seen, Cutoff(today)) = seen

Holds(entries, e) == \E i \in 1..Len(entries) : entries[i] = e

\* C9: after every save_seen that returns, the registry has an entry dated
\* today for each chosen title and obituary URL, no entry dated more than 90
\* days before today, and every entry it had with a date in the last 90 days.
C9_SavePostcondition ==
    runPc = "done" =>
        /\ \A i \in 1..Len(selected) :
               Holds(seen.wikipedia, [title |-> selected[i].title, date |-> today])
        /\ \A i \in 1..Len(obituaries) :
               \E j \in 1..Len(seen.obituaries) :
                   /\ seen.obituaries[j].url = obituaries[i].link
                   /\ seen.obituaries[j].date = today
        /\ \A i \in 1..Len(seen.wikipedia) : InWindow(seen.wikipedia[i])
        /\ \A i \in 1..Len(seen.obituaries) : InWindow(seen.obituaries[i])
        /\ \A i \in 1..Len(loaded.wikipedia) :
               InWindow(loaded.wikipedia[i]) => Holds(seen.wikipedia, loaded.wikipedia[i])
        /\ \A i \in 1..Len(loaded.obituaries) :
               InWindow(loaded.obituaries[i]) => Holds(seen.obituaries, loaded.obituaries[i])

\* A save added titles and an obituary, kept an entry dated exactly 90 days
\* back and dropped an older one.
C9_Witness ==
    /\ runPc = "done"
    /\ Len(obituaries) > 0
    /\ \E i \in 1..Len(loaded.wikipedia) :
           /\ DateOf(loaded.wikipedia[i]) = today - _SEEN_RETENTION_DAYS
           /\ Holds(seen.wikipedia, loaded.wikipedia[i])
    /\ \E i \in 1..Len(loaded.wikipedia) : ~Holds(seen.wikipedia, loaded.wikipedia[i])

\* C10: an exception in the obituary section is caught inside the run, leaves
\* the obituary list empty and does not keep the digest of the chosen
\* biographies from being sent and recorded: the run goes on to delivery, and
\* when it ends after the save its biographies are in the registry.
C10_ObituaryFailureIsolated ==
    obitFailed =>
        /\ obituaries = <<>>
        /\ exitCause # "obituary"
        /\ runPc \in {"send", "save", "done", "exit1", "raised"}
        /\ Len(selected) > 0
        /\ runPc \in {"save", "done"} => emailed
        /\ runPc = "done" =>
               \A i \in 1..Len(selected) :
                   Holds(seen.wikipedia, [title |-> selected[i].title, date |-> today])

\* A run whose obituary section failed has sent its digest and written the
\* ledger.
C10_Witness ==
    /\ obitFailed
    /\ runPc = "done"
    /\ emailed
    /\ writes = 1
    /\ file = JsonObject(seen)

\* C11: the only way a run ends with a non-zero outcome is a missing delivery
\* configuration value; every other failure is recovered and the run
\* completes.
C11_OnlyConfigFailureIsFatal ==
    runPc \in {"exit1", "raised"} => exitCause = "no_delivery_config"

(***************************************************************************)
(* Documents, _split_sections and extract_anecdote.                        *)
(*                                                                         *)
(* A document is a sequence of paragraphs (the pieces between blank        *)
(* lines); a paragraph is a sequence of stretches of text joined by single *)
(* spaces.  A stretch is named by a string and AtomInfo gives what the     *)
(* code reads of it: its length, whether it starts with a digit, the       *)
(* character class it ends with, the line breaks inside it, the section    *)
(* keyword it holds, and the sentences re.split finds in it.               *)
(***************************************************************************)
MaxParas == 5
MaxSplitParas == 4

HeaderCap == 80
SnippetCap == 3
TotalBudget == 500
SnippetBudget == 200
MinWords == 20
FallbackCap == 400

\* One piece of re.split(r'(?<=[.!?])\s+', text): its word count, the
\* scoring patterns that match it, its length in characters, and the tests
\* of lines 872-873.
Piece(id, words, pats, chars, cultural, fragment) ==
    [ids |-> {id}, words |-> words, pats |-> pats, chars |-> chars,
     cultural |-> cultural, fragment |-> fragment]

Stretch(len, digit, last, newlines, kw, pieces) ==
    [len |-> len, digit |-> digit, last |-> last, newlines |-> newlines,
     kw |-> kw, pieces |-> pieces]

HeaderAtoms == {"Filmography", "Personal life", "career", "Biography"}

BodyAtoms == {"S200.", "S120.", "S20. S30! S190.", "S8. film S50. and S40."}

\* Headers of the documents that are only split; "Death and legacy" holds a
\* prefer keyword ("death") and a skip keyword ("legacy").
SplitHeaderAtoms == {"Personal life", "career", "Filmography", "Death and legacy"}

SplitBodyAtoms == {"He was born in Paris.", "1990 was a good year",
                   "A long paragraph of ninety characters.", "Two" \o "\n" \o "lines"}

StretchOf(a) ==
    CASE a = "Filmography" ->
             Stretch(11, FALSE, "none", 0, "skip",
                     <<Piece(a, 1, {}, 11, FALSE, FALSE)>>)
      [] a = "Personal life" ->
             Stretch(13, FALSE, "none", 0, "prefer",
                     <<Piece(a, 2, {}, 13, FALSE, FALSE)>>)
      [] a = "career" ->
             Stretch(6, FALSE, "none", 0, "none",
                     <<Piece(a, 1, {}, 6, FALSE, TRUE)>>)
      [] a = "Biography" ->
             Stretch(9, FALSE, "none", 0, "none",
                     <<Piece(a, 1, {}, 9, FALSE, FALSE)>>)
      [] a = "Death and legacy" ->
             Stretch(16, FALSE, "none", 0, "both",
                     <<Piece(a, 3, {}, 16, FALSE, FALSE)>>)
      [] a = "S200." ->
             Stretch(1200, FALSE, "stop", 0, "none",
                     <<Piece(a, 200, {}, 1200, FALSE, FALSE)>>)
      [] a = "S120." ->
             Stretch(720, FALSE, "stop", 0, "none",
                     <<Piece(a, 120, {"u1"}, 720, FALSE, FALSE)>>)
      [] a = "S20. S30! S190." ->
             Stretch(1442, FALSE, "stop", 0, "none",
                     <<Piece("S20.", 20, {"w1"}, 120, FALSE, FALSE),
                       Piece("S30!", 30, {}, 180, FALSE, FALSE),
                       Piece("S190.", 190, {"u1", "u2"}, 1140, FALSE, FALSE)>>)
      [] a = "S8. film S50. and S40." ->
             Stretch(590, FALSE, "stop", 0, "none",
                     <<Piece("S8.", 8, {"u1"}, 48, FALSE, FALSE),
                       Piece("film S50.", 50, {"u1"}, 300, TRUE, FALSE),
                       Piece("and S40.", 40, {"u2"}, 240, FALSE, TRUE)>>)
      [] a = "He was born in Paris." ->
             Stretch(21, FALSE, "stop", 0, "none",
                     <<Piece(a, 5, {}, 21, FALSE, FALSE)>>)
      [] a = "1990 was a good year" ->
             Stretch(20, TRUE, "none", 0, "none",
                     <<Piece(a, 5, {}, 20, FALSE, TRUE)>>)
      [] a = "A long paragraph of ninety characters." ->
             Stretch(90, FALSE, "stop", 0, "none",
                     <<Piece(a, 15, {}, 90, FALSE, FALSE)>>)
      [] OTHER ->
             Stretch(9, FALSE, "none", 1, "none",
                     <<Piece(a, 2, {}, 9, FALSE, FALSE)>>)

\* What the code reads of each stretch, as a table.
AtomInfo ==
    [a \in HeaderAtoms \cup BodyAtoms \cup SplitHeaderAtoms \cup SplitBodyAtoms |-> StretchOf(a)]

RECURSIVE TotalLen(_)
TotalLen(para) ==
    IF Len(para) = 0 THEN 0 ELSE AtomInfo[para[1]].len + TotalLen(Tail(para))

RECURSIVE TotalBreaks(_)
TotalBreaks(para) ==
    IF Len(para) = 0 THEN 0 ELSE AtomInfo[para[1]].newlines + TotalBreaks(Tail(para))

\* len(first_line) and len(lines) of a paragraph made of stretches joined by
\* single spaces.
ParaLen(para) == IF Len(para) = 0 THEN 0 ELSE TotalLen(para) + Len(para) - 1

ParaLines(para) == 1 + TotalBreaks(para)

\* Lines 751-757.
is_header(para) ==
    /\ ParaLen(para) > 0
    /\ ParaLen(para) < HeaderCap
    /\ AtomInfo[para[Len(para)]].last = "none"
    /\ ~AtomInfo[para[1]].digit
    /\ ParaLines(para) = 1

\* `kw in h` for some skip keyword, some prefer keyword, h being the header
\* in lower case; kw is "both" for a stretch that holds one of each.
HasSkipKeyword(header) ==
    \E i \in 1..Len(header) : AtomInfo[header[i]].kw \in {"skip", "both"}

HasPreferKeyword(header) ==
    \E i \in 1..Len(header) : AtomInfo[header[i]].kw \in {"prefer", "both"}

\* A classification that looks up the prefer keywords first.
_section_scorePreferFirst(header) ==
    IF HasPreferKeyword(header) THEN 2
    ELSE IF HasSkipKeyword(header) THEN 0
    ELSE 1

\* Lines 725-733: skip keywords are looked up first.
_section_score(header) ==
    IF HasSkipKeyword(header) THEN 0
    ELSE IF HasPreferKeyword(header) THEN 2
    ELSE 1

RECURSIVE Flatten(_)
Flatten(chunks) == IF Len(chunks) = 0 THEN <<>> ELSE chunks[1] \o Flatten(Tail(chunks))

\* Lines 759-763 and 775-779.
Section(header, chunks) ==
    [header |-> header, text |-> Flatten(chunks), multiplier |-> _section_score(header)]

\* Lines 746-772: the loop over the paragraphs, st holding sections,
\* current_header and current_chunks.
RECURSIVE SplitWalk(_, _)
SplitWalk(paras, st) ==
    IF Len(paras) = 0 THEN st
    ELSE LET para == paras[1]
         IN  IF Len(para) = 0 THEN SplitWalk(Tail(paras), st)
             ELSE IF is_header(para) /\ Len(st.current_chunks) > 0
                  THEN SplitWalk(Tail(paras),
                           [sections |-> Append(st.sections,
                                                Section(st.current_header, st.current_chunks)),
                            current_header |-> para,
                            current_chunks |-> <<>>])
             ELSE IF is_header(para)
                  THEN SplitWalk(Tail(paras), [st EXCEPT !.current_header = para])
             ELSE SplitWalk(Tail(paras),
                            [st EXCEPT !.current_chunks = Append(@, para)])

\* Lines 736-783.
_split_sections(doc) ==
    LET st == SplitWalk(doc, [sections |-> <<>>, current_header |-> <<>>,
                              current_chunks |-> <<>>])
    IN  IF Len(st.current_chunks) > 0
        THEN Append(st.sections, Section(st.current_header, st.current_chunks))
        ELSE st.sections

\* The sections written out again, each as its header, a blank line and its
\* body.
Rejoined(secs) ==
    [i \in 1..(2 * Len(secs)) |->
        IF i % 2 = 1 THEN secs[(i + 1) \div 2].header ELSE secs[i \div 2].text]

Headers(secs) == {secs[i].header : i \in 1..Len(secs)}

InitText ==
    /\ extract = <<>>
    /\ signals \in {<<>>, <<"watercooler">>}
    /\ sections = <<>>
    /\ resplit = <<>>
    /\ snippets = <<>>
    /\ tried = <<>>
    /\ usedFallback = FALSE
    /\ textPc = "doc"
    /\ SelectIdle
    /\ ArchiveIdle
    /\ RunIdle
    /\ ScoreIdle
    /\ FetchIdle
    /\ ItemIdle
    /\ TeaserIdle

\* One more paragraph in the document.
AddParagraph(atoms, maxParas) ==
    /\ textPc = "doc"
    /\ Len(extract) < maxParas
    /\ \E a \in atoms : extract' = Append(extract, <<a>>)
    /\ UNCHANGED <<signals, sections, resplit, snippets, tried, usedFallback, textPc,
                   selVars, archVars, runVars,
                   scoreVars, fetchVars, itemVars, teaserVars>>

\* _split_sections(extract), and again on its own output.
SplitSections ==
    /\ textPc = "doc"
    /\ sections' = _split_sections(extract)
    /\ resplit' = _split_sections(Rejoined(sections'))
    /\ textPc' = "split"
    /\ UNCHANGED <<extract, signals, snippets, tried, usedFallback, selVars, archVars,
                   runVars, scoreVars, fetchVars, itemVars, teaserVars>>

NextSplit ==
    \/ AddParagraph(SplitHeaderAtoms \cup SplitBodyAtoms, MaxSplitParas)
    \/ SplitSections

SpecSplit == InitText /\ [][NextSplit]_vars

\* C16: splitting is idempotent on headers: the sections of a document,
\* written out as header and body and split again, have the same set of
\* headers.
C16_SplitIdempotentOnHeaders ==
    textPc = "split" => Headers(resplit) = Headers(sections)

(***************************************************************************)
(* extract_anecdote.                                                       *)
(***************************************************************************)
\* The taxonomy, reduced to one primary and two secondary criteria; "u1" is a
\* pattern two criteria share, as r'\bdespite\b' is.
_PRIMARY_SIGNALS == [watercooler |-> <<"w1", "w2", "w3", "w4">>]

_SECONDARY_SIGNALS == [underdog |-> <<"u1", "u2", "u3">>, irony |-> <<"u1", "i2">>]

PrimaryOrder == <<"watercooler">>

SecondaryOrder == <<"underdog", "irony">>

\* Lines 846-852.
PatternsOf(sig) ==
    IF sig \in DOMAIN _PRIMARY_SIGNALS THEN _PRIMARY_SIGNALS[sig]
    ELSE IF sig \in DOMAIN _SECONDARY_SIGNALS THEN _SECONDARY_SIGNALS[sig]
    ELSE <<>>

RECURSIVE PatternsOfAll(_)
PatternsOfAll(sigs) ==
    IF Len(sigs) = 0 THEN <<>> ELSE PatternsOf(sigs[1]) \o PatternsOfAll(Tail(sigs))

scoring_patterns(sigs) ==
    IF Len(PatternsOfAll(sigs)) > 0 THEN PatternsOfAll(sigs)
    ELSE PatternsOfAll(SecondaryOrder)

\* Two neighbours that re.split leaves in one piece, the first not ending in
\* a full stop.
Merged(a, b) ==
    [ids |-> a.ids \cup b.ids, words |-> a.words + b.words, pats |-> a.pats \cup b.pats,
     chars |-> a.chars + 1 + b.chars, cultural |-> a.cultural \/ b.cultural,
     fragment |-> a.fragment]

\* re.split(r'(?<=[.!?])\s+', text) on stretches joined by white space.
RECURSIVE PiecesOf(_)
PiecesOf(atoms) ==
    IF Len(atoms) = 0 THEN <<>>
    ELSE LET head == AtomInfo[atoms[1]].pieces
             rest == PiecesOf(Tail(atoms))
         IN  IF AtomInfo[atoms[1]].last = "stop" \/ Len(rest) = 0 THEN head \o rest
             ELSE SubSeq(head, 1, Len(head) - 1)
                  \o <<Merged(head[Len(head)], rest[1])>> \o Tail(rest)

\* Lines 869-874 and 923-928.
UsableSentences(atoms) ==
    LET Usable(x) == x.chars > 35 /\ ~x.cultural /\ ~x.fragment
    IN  SelectSeq(PiecesOf(atoms), Usable)

\* Line 881.
Hits(sent, patterns) == Cardinality({i \in 1..Len(patterns) : patterns[i] \in sent.pats})

\* Lines 879-885: the first sentence with the most hits.
BestIndex(sentences, patterns) ==
    CHOOSE i \in 1..Len(sentences) :
        /\ \A j \in 1..Len(sentences) : Hits(sentences[j], patterns) <= Hits(sentences[i], patterns)
        /\ \A j \in 1..(i - 1) : Hits(sentences[j], patterns) < Hits(sentences[i], patterns)

RECURSIVE WordsOf(_)
WordsOf(sents) == IF Len(sents) = 0 THEN 0 ELSE sents[1].words + WordsOf(Tail(sents))

\* Lines 891-898.
RECURSIVE Window(_, _, _, _)
Window(sentences, i, budget, window) ==
    IF i > Len(sentences) THEN window
    ELSE IF WordsOf(window) + sentences[i].words > budget /\ Len(window) > 0 THEN window
    ELSE Window(sentences, i + 1, budget, Append(window, sentences[i]))

RECURSIVE HeaderString(_)
HeaderString(header) ==
    IF Len(header) = 0 THEN ""
    ELSE IF Len(header) = 1 THEN header[1]
    ELSE header[1] \o " " \o HeaderString(Tail(header))

\* str.title() on the headers of the model.
TitleCase(str) ==
    CASE str = "career" -> "Career"
      [] str = "Personal life" -> "Personal Life"
      [] OTHER -> str

\* str.lower() on the labels of the model.
LowerCase(str) ==
    CASE str = "Career" -> "career"
      [] str = "Personal Life" -> "personal life"
      [] str = "Biography" -> "biography"
      [] str = "Filmography" -> "filmography"
      [] str = "Life & Character" -> "life & character"
      [] OTHER -> str

DefaultLabel == "Life & Character"

GenericLabels == {"biography", "life", "overview", "introduction", "background", ""}

Suffixes == <<"II", "III", "IV", "V">>

\* Lines 904-907.
BaseLabel(header) ==
    LET label == IF HeaderString(header) # "" THEN TitleCase(HeaderString(header))
                 ELSE DefaultLabel
    IN  IF LowerCase(label) \in GenericLabels THEN DefaultLabel ELSE label

\* A label that is never marked as a repeat.
LabelOfNoSuffix(base, count) == base

\* Lines 910-916: count is the number of snippets with this base label, this
\* one included.
LabelOf(base, count) ==
    IF count > 1
    THEN base \o " (" \o Suffixes[Min(count - 2, Len(Suffixes) - 1) + 1] \o ")"
    ELSE base

\* Lines 856-859: preferred sections first, then normal ones.
AnecdotePool(secs) ==
    LET IsPreferred(x) == x.multiplier = 2
        IsNormal(x) == x.multiplier = 1
    IN  SelectSeq(secs, IsPreferred) \o SelectSeq(secs, IsNormal)

\* Lines 865-919: the loop over pool, from its k-th section on.
RECURSIVE AnecdoteWalk(_, _, _, _)
AnecdoteWalk(pool, k, patterns, st) ==
    IF k > Len(pool) THEN st
    ELSE IF Len(st.snippets) >= SnippetCap \/ st.total_words >= TotalBudget THEN st
    ELSE LET sentences == UsableSentences(pool[k].text)
             entered == [st EXCEPT !.tried = Append(@, pool[k])]
         IN  IF Len(sentences) = 0 THEN AnecdoteWalk(pool, k + 1, patterns, entered)
             ELSE LET best_idx == BestIndex(sentences, patterns)
                      budget == Min(SnippetBudget, TotalBudget - st.total_words)
                      start == IF best_idx > 1 THEN best_idx - 1 ELSE 1
                      window == Window(sentences, start, budget, <<>>)
                      wc == WordsOf(window)
                      base == BaseLabel(pool[k].header)
                      count == Cardinality({i \in 1..Len(st.used) : st.used[i] = base}) + 1
                  IN  IF wc < MinWords THEN AnecdoteWalk(pool, k + 1, patterns, entered)
                      ELSE AnecdoteWalk(pool, k + 1, patterns,
                               [snippets |-> Append(st.snippets,
                                                    [label |-> LabelOf(base, count),
                                                     text |-> window, words |-> wc]),
                                total_words |-> st.total_words + wc,
                                used |-> Append(st.used, base),
                                tried |-> entered.tried])

\* Lines 927-936: sentences are taken until one would pass the cap.
RECURSIVE FallbackText(_, _)
FallbackText(all_sents, taken) ==
    IF Len(all_sents) = 0 THEN taken
    ELSE IF WordsOf(taken) + all_sents[1].words > FallbackCap THEN taken
    ELSE FallbackText(Tail(all_sents), Append(taken, all_sents[1]))

\* Lines 834-939; .walk is the state the loop ends in.
AnecdoteRun(doc, sigs) ==
    AnecdoteWalk(AnecdotePool(_split_sections(doc)), 1, scoring_patterns(sigs),
                 [snippets |-> <<>>, total_words |-> 0, used |-> <<>>, tried |-> <<>>])

\* Lines 921-937.
Fallback(doc) ==
    LET fallback_text == FallbackText(UsableSentences(Flatten(doc)), <<>>)
    IN  << [label |-> DefaultLabel, text |-> fallback_text,
            words |-> WordsOf(fallback_text)] >>

extract_anecdote(doc, sigs) ==
    IF Len(AnecdoteRun(doc, sigs).snippets) > 0 THEN AnecdoteRun(doc, sigs).snippets
    ELSE Fallback(doc)

\* The call extract_anecdote(extract, signals).
ExtractAnecdote ==
    /\ textPc = "doc"
    /\ sections' = _split_sections(extract)
    /\ \E walk \in {AnecdoteRun(extract, signals)} :
           /\ snippets' = IF Len(walk.snippets) > 0 THEN walk.snippets ELSE Fallback(extract)
           /\ tried' = walk.tried
           /\ usedFallback' = (Len(walk.snippets) = 0)
    /\ textPc' = "done"
    /\ UNCHANGED <<extract, signals, resplit, selVars, archVars, runVars,
                   scoreVars, fetchVars, itemVars, teaserVars>>

NextAnecdote ==
    \/ AddParagraph(HeaderAtoms \cup BodyAtoms, MaxParas)
    \/ ExtractAnecdote

SpecAnecdote == InitText /\ [][NextAnecdote]_vars

TotalWords(snips) ==
    LET RECURSIVE Sum(_)
        Sum(q) == IF Len(q) = 0 THEN 0 ELSE q[1].words + Sum(Tail(q))
    IN  Sum(snips)

\* C12: the word counts of the snippets extract_anecdote returns sum to at
\* most 500 and every returned snippet has at least 20 words.
C12_WithinBudgetAboveFloor ==
    textPc = "done" =>
        /\ TotalWords(snippets) <= TotalBudget
        /\ \A i \in 1..Len(snippets) : snippets[i].words >= MinWords

\* The sentences of a list of stretches, by name.
IdsIn(atoms) == UNION {PiecesOf(atoms)[i].ids : i \in 1..Len(PiecesOf(atoms))}

IdsOfSections(secs, multipliers) ==
    UNION {IdsIn(secs[i].text) : i \in {j \in 1..Len(secs) : secs[j].multiplier \in multipliers}}

IdsOfSnippets(snips) ==
    UNION {UNION {snips[i].text[k].ids : k \in 1..Len(snips[i].text)} : i \in 1..Len(snips)}

\* The sentences that lie in sections classified skip and in no other.
SkipOnly == IdsOfSections(sections, {0}) \ IdsOfSections(sections, {1, 2})

\* C17: no sentence that lies in a section classified skip (and in no other
\* section) is in a returned snippet, and the sections classified preferred
\* are all tried before any section classified normal.
C17_SkipExcludedPreferredFirst ==
    textPc = "done" =>
        /\ SkipOnly \cap IdsOfSnippets(snippets) = {}
        /\ \A i, j \in 1..Len(tried) :
               (tried[i].multiplier = 1 /\ tried[j].multiplier = 2) => j < i
        /\ (\E i \in 1..Len(tried) : tried[i].multiplier = 1)
               => \A k \in 1..Len(sections) :
                      sections[k].multiplier = 2
                          => \E j \in 1..Len(tried) : tried[j] = sections[k]

\* The labels a header of the model can give before the repeat count.
BaseLabels == {"Filmography", "Personal Life", "Career", DefaultLabel}

Marked(base, n) == IF n = 0 THEN base ELSE base \o " (" \o Suffixes[n] \o ")"

\* C18: the labels of the returned snippets are pairwise distinct: the n-th
\* repeat of a label carries the n-th suffix, " (II)" first, and generic and
\* empty headers count as "Life & Character".
C18_LabelsDistinct ==
    textPc = "done" =>
        /\ \A i, j \in 1..Len(snippets) : i # j => snippets[i].label # snippets[j].label
        /\ \A i \in 1..Len(snippets) :
               \E b \in BaseLabels :
                   snippets[i].label =
                       Marked(b, Cardinality({j \in 1..(i - 1) :
                                                 \E n \in 0..2 : snippets[j].label = Marked(b, n)}))

\* Three sections with a generic or no header each gave a snippet.
C18_Witness ==
    /\ textPc = "done"
    /\ Len(snippets) = 3
    /\ snippets[1].label = "Life & Character"
    /\ snippets[2].label = "Life & Character (II)"
    /\ snippets[3].label = "Life & Character (III)"
    /\ \E i \in 1..Len(sections) : sections[i].header = <<"Biography">>
    /\ \E i \in 1..Len(sections) : sections[i].header = <<>>

(***************************************************************************)
(* score_biography and _score_obituary_text.                               *)
(*                                                                         *)
(* A text is its length in characters and the set of patterns of the       *)
(* taxonomy that re.search finds in it.                                    *)
(***************************************************************************)
MaxCalls == 2

BioFloor == 400
ObitFloor == 200
_PRIMARY_THRESHOLD == 4
_SECONDARY_THRESHOLD == 3
ObitPrimaryThreshold == 3
ObitSecondaryThreshold == 2
BonusStep == 4000
BonusCap == 3

\* Text lengths on both sides of each floor and of the length bonus.
TextLens == <<0, 199, 200, 399, 400, 4000, 16000>>

AllPatterns == {"w1", "w2", "w3", "w4", "u1", "u2", "u3", "i2"}

\* What random.uniform(0, 2) may return, to the nearest unit.
Jitters == {0, 1, 2}

ZeroScore == [primary |-> 0, secondary |-> 0, total |-> 0, signals |-> <<>>]

\* A floor test that only turns the empty text away.
TooShortEmptyOnly(t, floor) == t.len = 0

\* `not text or len(text) < floor` (lines 627 and 1195).
TooShort(t, floor) == t.len = 0 \/ t.len < floor

\* sum(1 for p in patterns if re.search(p, text_lower))
PatternHits(t, patterns) == Cardinality({i \in 1..Len(patterns) : patterns[i] \in t.pats})

\* The criteria of `table`, in `order`, whose patterns hit at least
\* `threshold` times.
Matched(t, table, order, threshold) ==
    LET Hit(c) == PatternHits(t, table[c]) >= threshold
    IN  SelectSeq(order, Hit)

\* Lines 626-650.
score_biography(t) ==
    IF TooShort(t, BioFloor) THEN ZeroScore
    ELSE LET prim == Matched(t, _PRIMARY_SIGNALS, PrimaryOrder, _PRIMARY_THRESHOLD)
             sec == Matched(t, _SECONDARY_SIGNALS, SecondaryOrder, _SECONDARY_THRESHOLD)
         IN  [primary |-> Len(prim), secondary |-> Len(sec),
              total |-> Len(prim) * 10 + Len(sec) * 2 + Min(t.len \div BonusStep, BonusCap),
              signals |-> prim \o sec]

\* Lines 1193-1219; jitter is what random.uniform(0, 2) returned.
_score_obituary_text(t, jitter) ==
    IF TooShort(t, ObitFloor) THEN ZeroScore
    ELSE LET prim == Matched(t, _PRIMARY_SIGNALS, PrimaryOrder, ObitPrimaryThreshold)
             sec == Matched(t, _SECONDARY_SIGNALS, SecondaryOrder, ObitSecondaryThreshold)
         IN  [primary |-> Len(prim), secondary |-> Len(sec),
              total |-> Len(prim) * 10 + Len(sec) * 2 + jitter,
              signals |-> prim \o sec]

InitScore ==
    /\ score_text = [len |-> 0, pats |-> {}]
    /\ bioScores = <<>>
    /\ obitScores = <<>>
    /\ scorePc = "text"
    /\ SelectIdle
    /\ ArchiveIdle
    /\ RunIdle
    /\ TextIdle
    /\ FetchIdle
    /\ ItemIdle
    /\ TeaserIdle

\* A longer text.
Lengthen ==
    /\ scorePc = "text"
    /\ \E i \in 1..(Len(TextLens) - 1) :
           /\ score_text.len = TextLens[i]
           /\ score_text' = [score_text EXCEPT !.len = TextLens[i + 1]]
    /\ UNCHANGED <<bioScores, obitScores, scorePc, selVars, archVars, runVars,
                   textVars, fetchVars, itemVars, teaserVars>>

\* A text in which one more pattern is found.
AddMatch ==
    /\ scorePc = "text"
    /\ score_text.len > 0
    /\ \E p \in AllPatterns \ score_text.pats :
           score_text' = [score_text EXCEPT !.pats = @ \cup {p}]
    /\ UNCHANGED <<bioScores, obitScores, scorePc, selVars, archVars, runVars,
                   textVars, fetchVars, itemVars, teaserVars>>

\* One call score_biography(score_text).
ScoreBiography ==
    /\ scorePc \in {"text", "scoring"}
    /\ Len(bioScores) < MaxCalls
    /\ bioScores' = Append(bioScores, score_biography(score_text))
    /\ scorePc' = "scoring"
    /\ UNCHANGED <<score_text, obitScores, selVars, archVars, runVars,
                   textVars, fetchVars, itemVars, teaserVars>>

\* One call _score_obituary_text(score_text).
ScoreObituary ==
    /\ scorePc \in {"text", "scoring"}
    /\ Len(obitScores) < MaxCalls
    /\ \E jitter \in Jitters :
           obitScores' = Append(obitScores, _score_obituary_text(score_text, jitter))
    /\ scorePc' = "scoring"
    /\ UNCHANGED <<score_text, bioScores, selVars, archVars, runVars,
                   textVars, fetchVars, itemVars, teaserVars>>

NextScore == Lengthen \/ AddMatch \/ ScoreBiography \/ ScoreObituary

SpecScore == InitScore /\ [][NextScore]_vars

\* C13: a text shorter than the floor of the scorer (400 characters for
\* score_biography, 200 for _score_obituary_text), the empty text included,
\* scores primary 0, secondary 0, total 0 with no signals.
C13_BelowFloorScoresZero ==
    /\ score_text.len < BioFloor => \A i \in 1..Len(bioScores) : bioScores[i] = ZeroScore
    /\ score_text.len < ObitFloor => \A i \in 1..Len(obitScores) : obitScores[i] = ZeroScore

\* A text one character short of the obituary floor in which every pattern is
\* found was scored by both scorers.
C13_Witness ==
    /\ score_text.len = ObitFloor - 1
    /\ score_text.pats = AllPatterns
    /\ Len(bioScores) > 0
    /\ Len(obitScores) > 0
    /\ bioScores[1] = ZeroScore
    /\ obitScores[1] = ZeroScore

\* C14: scoring is deterministic: two calls of a scorer on the same text
\* return the same total and the same list of matched criteria.
C14_ScoringDeterministic ==
    /\ \A i, j \in 1..Len(bioScores) :
           bioScores[i].total = bioScores[j].total /\ bioScores[i].signals = bioScores[j].signals
    /\ \A i, j \in 1..Len(obitScores) :
           obitScores[i].total = obitScores[j].total /\ obitScores[i].signals = obitScores[j].signals

(***************************************************************************)
(* The network calls: http_get_json, _fetch_rss and the page fetches of    *)
(* _resolve_archive_url.                                                   *)
(***************************************************************************)
Retries == 3
Delay == 2

\* "json" is http_get_json (Wikipedia API, snapshot availability lookup);
\* the others are the urlopen calls of _fetch_rss and of the four steps of
\* _resolve_archive_url.
CallKinds == {"json", "rss", "mirror", "snapshot", "direct", "meta"}

\* What one urlopen-and-parse does: it returns, or raises a network error,
\* or raises on the payload.
Outcomes == {"ok", "URLError", "ValueError"}

InitFetch ==
    /\ call = ""
    /\ attempts = <<>>
    /\ slept = <<>>
    /\ fetched = ""
    /\ finished = <<>>
    /\ fetchPc = "ready"
    /\ SelectIdle
    /\ ArchiveIdle
    /\ RunIdle
    /\ TextIdle
    /\ ScoreIdle
    /\ ItemIdle
    /\ TeaserIdle

\* The caller enters one of the calls.
StartCall ==
    /\ fetchPc = "ready"
    /\ Len(finished) < MaxCalls
    /\ \E kind \in CallKinds : call' = kind
    /\ attempts' = <<>>
    /\ slept' = <<>>
    /\ fetchPc' = "calling"
    /\ UNCHANGED <<fetched, finished, selVars, archVars, runVars, textVars,
                   scoreVars, itemVars, teaserVars>>

\* The call returns `result` to its caller.
Returned(result, made, sleeps) ==
    /\ fetched' = result
    /\ finished' = Append(finished, [call |-> call, attempts |-> made,
                                     slept |-> sleeps, result |-> result])
    /\ fetchPc' = "ready"
    /\ attempts' = made
    /\ slept' = sleeps

\* One turn of the loop of http_get_json (lines 175-184).
HttpGetJsonAttempt ==
    /\ fetchPc = "calling"
    /\ call = "json"
    /\ \E outcome \in Outcomes :
           LET made == Append(attempts, outcome)
           IN  IF outcome = "ok" THEN Returned("data", made, slept)
               ELSE IF Len(made) < Retries
                    THEN /\ attempts' = made
                         /\ slept' = Append(slept, Delay)
                         /\ UNCHANGED <<fetched, finished, fetchPc>>
                    ELSE Returned("empty", made, slept)
    /\ UNCHANGED <<call, selVars, archVars, runVars, textVars, scoreVars, itemVars, teaserVars>>

\* The try block of _fetch_rss (lines 971-1001) and of each step of
\* _resolve_archive_url (lines 1121-1132, 1144-1155, 1161-1169, 1176-1187).
SingleAttempt ==
    /\ fetchPc = "calling"
    /\ call \in CallKinds \ {"json"}
    /\ \E outcome \in Outcomes :
           Returned(IF outcome = "ok" THEN "data" ELSE "empty", <<outcome>>, slept)
    /\ UNCHANGED <<call, selVars, archVars, runVars, textVars, scoreVars, itemVars, teaserVars>>

NextFetch == StartCall \/ HttpGetJsonAttempt \/ SingleAttempt

SpecFetch == InitFetch /\ [][NextFetch]_vars

\* C15: every network call is attempted up to a fixed number of times with a
\* fixed delay between attempts, stops at the first success, and after the
\* last failed attempt returns an empty result instead of raising.
C15_EveryCallRetries ==
    \A i \in 1..Len(finished) :
        LET f == finished[i]
            n == Len(f.attempts)
        IN  /\ n \in 1..Retries
            /\ \A k \in 1..(n - 1) : f.attempts[k] # "ok"
            /\ f.slept = [k \in 1..(n - 1) |-> Delay]
            /\ f.attempts[n] = "ok" => f.result = "data"
            /\ f.attempts[n] # "ok" => n = Retries /\ f.result = "empty"

(***************************************************************************)
(* One item of fetch_obituaries: the archive chain on its link, then the   *)
(* link the digest shows for it.                                           *)
(***************************************************************************)
\* The keys of _OBITUARY_RSS_FEEDS.
Sources == {"NYT", "Guardian"}

\* A link that is whatever the chain returned.
LinkAsResolved(source, resolved, link) == resolved

\* Lines 1384-1395: item["archive_url"].
LinkOf(source, resolved, link) ==
    IF source = "NYT" /\ ~Contains(resolved, "archive.ph/")
    THEN ArchiveNewest(link)
    ELSE resolved

\* Line 1382: _resolve_archive_url(item["link"]) is entered.
InitObitItem ==
    /\ item_source \in Sources
    /\ archive_url = <<>>
    /\ itemPc = "resolving"
    /\ original_url \in OriginalUrls
    /\ best_url = original_url
    /\ article_text = <<>>
    /\ archPc = "NotTried"
    /\ archLog = <<>>
    /\ SelectIdle
    /\ RunIdle
    /\ TextIdle
    /\ ScoreIdle
    /\ FetchIdle
    /\ TeaserIdle

\* Lines 1382-1397: the chain has returned (best_url, article_text).
LinkItem ==
    /\ itemPc = "resolving"
    /\ archPc = "Done"
    /\ archive_url' = LinkOf(item_source, best_url, original_url)
    /\ itemPc' = "linked"
    /\ UNCHANGED <<item_source, selVars, archVars, runVars, textVars, scoreVars, fetchVars, teaserVars>>

NextObitItem == TryMirror \/ TrySnapshot \/ TryDirect \/ TryMetaFallback \/ LinkItem

SpecObitItem == InitObitItem /\ [][NextObitItem]_vars

NotAdmitted(pool, adm) ==
    LET Left(p) == p \notin SeqToSet(adm)
    IN  SelectSeq(pool, Left)

\* C20: when the constrained pass admits fewer than 4 of a pool of more than
\* 4, the remaining slots are filled with the highest-ranked candidates not
\* yet selected, in rank order and whatever their era and diversity key, so
\* that 4 are returned.
C20_FillReachesFour ==
    (selPc = "done" /\ Len(ranked) > DigestSize /\ Len(admitted) < DigestSize) =>
        /\ Len(selected) = DigestSize
        /\ SubSeq(selected, 1, Len(admitted)) = admitted
        /\ SubSeq(selected, Len(admitted) + 1, Len(selected))
               = SubSeq(NotAdmitted(ranked, admitted), 1, Len(selected) - Len(admitted))

Filtered == runPc \notin {"start", "fetch"} /\ Len(candidates) > 0

\* The fetched candidates whose title has no entry in the loaded ledger, in
\* fetch order.
UnseenInFetchOrder ==
    LET Unseen(c) == LedgerEntriesOf(c.title) = {}
    IN  SelectSeq(candidates, Unseen)

\* C22: if at least 4 fetched candidates have a title absent from the ledger,
\* exactly those go on to scoring, in fetch order; if fewer than 4 do, the
\* whole fetched pool goes on to scoring, seen titles included.
C22_SeenFilterWithSafetyValve ==
    Filtered =>
        IF Len(UnseenInFetchOrder) >= MinFresh
        THEN /\ fresh_candidates = UnseenInFetchOrder
             /\ \A i \in 1..Len(fresh_candidates) :
                    LedgerEntriesOf(fresh_candidates[i].title) = {}
        ELSE fresh_candidates = candidates

\* A run fetched a title the ledger holds along with at least 4 it does not
\* hold, and the ledger title was left out of scoring.
C22_Witness ==
    /\ Filtered
    /\ Len(UnseenInFetchOrder) >= MinFresh
    /\ Len(fresh_candidates) < Len(candidates)
    /\ fresh_candidates = UnseenInFetchOrder

\* A run fetched at least 4 candidates of which fewer than 4 are absent from
\* the ledger, and all of them went on to scoring.
C22_ValveTaken ==
    /\ Filtered
    /\ Len(candidates) >= MinFresh
    /\ Len(UnseenInFetchOrder) < MinFresh
    /\ fresh_candidates = candidates

(***************************************************************************)
(* The ledger within one run.                                              *)
(***************************************************************************)
\* A step that changes the ledger file or, once loaded, the registry held in
\* memory.
LedgerChanges == file' # file \/ (runPc # "start" /\ seen' # seen)

\* C23: within one run the ledger, in memory and on disk, is changed at most
\* once, by save_seen, after fetching, scoring, selection and delivery, and
\* that step is the last of the run.
C23_LedgerChangedOnceAtEnd ==
    [][/\ LedgerChanges =>
              /\ runPc = "save"
              /\ runPc' \in {"done", "raised"}
              /\ emailed
              /\ Len(candidates) > 0
              /\ Len(selected) > 0
              /\ writes = 0
       /\ writes' <= 1]_vars

\* A run that delivered its digest ended with the registry it loaded grown
\* by the digest, written once.
C23_Witness ==
    /\ runPc = "done"
    /\ writes = 1
    /\ emailed
    /\ seen # loaded
    /\ file = JsonObject(seen)

(***************************************************************************)
(* What reaches the ledger file.                                           *)
(***************************************************************************)
\* The ways a run ends before its digest is delivered.
EarlyEnds == {"no_candidates", "no_scoreable", "no_delivery_config", "smtp"}

\* The entry was loaded from the ledger, or it is dated today and names a
\* biography of the delivered digest.
LoadedOrDeliveredTitle(e) ==
    \/ Holds(loaded.wikipedia, e)
    \/ /\ DateOf(e) = today
       /\ \E i \in 1..Len(selected) : e.title = selected[i].title

\* The same for an obituary of the delivered digest.
LoadedOrDeliveredObit(e) ==
    \/ Holds(loaded.obituaries, e)
    \/ /\ DateOf(e) = today
       /\ \E i \in 1..Len(obituaries) : e.url = obituaries[i].link

\* C24: the ledger file changes only after the digest was delivered, every
\* entry then written was loaded or belongs to that digest, and a run that
\* ends early leaves the file as it was.
C24_RecordedOnlyIfDelivered ==
    [][/\ file' # file => (runPc = "save" /\ emailed)
       /\ (file' # file /\ file'.kind = "json") =>
              /\ \A i \in 1..Len(file'.data.obj.wikipedia) :
                     LoadedOrDeliveredTitle(file'.data.obj.wikipedia[i])
              /\ \A i \in 1..Len(file'.data.obj.obituaries) :
                     LoadedOrDeliveredObit(file'.data.obj.obituaries[i])
       /\ exitCause' \in EarlyEnds => (file' = file /\ writes' = 0)]_vars

\* A run that loaded entries and scored more candidates than it chose wrote
\* its four biographies and its obituaries after delivery.
C24_Witness ==
    /\ runPc = "done"
    /\ emailed
    /\ writes = 1
    /\ file = JsonObject(seen)
    /\ Len(loaded.wikipedia) > 0
    /\ Len(ranked) > Len(selected)
    /\ Len(obituaries) > 0
    /\ \A i \in 1..Len(seen.wikipedia) : LoadedOrDeliveredTitle(seen.wikipedia[i])

(***************************************************************************)
(* The snapshot and direct steps of the archive chain.                     *)
(***************************************************************************)
\* The URL a step stands for.
UrlOfStep(step) == IF step = "snapshot" THEN SnapshotUrl(original_url) ELSE original_url

\* C25: the text of the snapshot step and of the direct step replaces the
\* held text only when strictly longer, and the resolved URL then becomes
\* that step's URL; otherwise text and resolved URL stay as they were.
C25_AdoptedOnlyIfLonger ==
    [][(Len(archLog') = Len(archLog) + 1
            /\ archLog'[Len(archLog')].step \in {"snapshot", "direct"}) =>
           LET e == archLog'[Len(archLog')]
           IN  IF e.got > TextLen(article_text)
               THEN /\ article_text' = Text(e.step, e.got)
                    /\ TextLen(article_text') > TextLen(article_text)
                    /\ best_url' = UrlOfStep(e.step)
               ELSE /\ article_text' = article_text
                    /\ best_url' = best_url]_vars

\* The snapshot was as long as the mirror's text and was left aside; the
\* original page was longer and was adopted.
C25_Witness ==
    /\ Len(archLog) >= 3
    /\ archLog[2].got > 0
    /\ archLog[2].got = archLog[2].held
    /\ archLog[3].got > archLog[3].held
    /\ article_text = Text("direct", archLog[3].got)
    /\ best_url = original_url

(***************************************************************************)
(* The meta-description step of the archive chain.                         *)
(***************************************************************************)
\* C26: when the meta-description step finds a description, the returned
\* text is the description followed by the text the earlier steps collected
\* and the resolved URL is the original URL; when it finds none, text and
\* resolved URL are returned as the earlier steps left them.
C26_DescriptionPrepended ==
    [][(Len(archLog') = Len(archLog) + 1 /\ archLog'[Len(archLog')].step = "meta") =>
           LET e == archLog'[Len(archLog')]
           IN  /\ archPc' = "Done"
               /\ IF e.got > 0
                  THEN /\ article_text' = <<[from |-> "meta", len |-> e.got]>> \o article_text
                       /\ TextLen(article_text') =
                              e.got + (IF TextLen(article_text) > 0
                                       THEN 1 + TextLen(article_text) ELSE 0)
                       /\ best_url' = original_url
                  ELSE /\ article_text' = article_text
                       /\ best_url' = best_url]_vars

\* A description was put in front of a short text taken from the mirror, and
\* the chain returned the original URL.
C26_Witness ==
    /\ archPc = "Done"
    /\ Len(archLog) = 4
    /\ archLog[4].got > 0
    /\ archLog[4].held > 0
    /\ Len(article_text) = 2
    /\ article_text[1].from = "meta"
    /\ article_text[2].from = "mirror"
    /\ best_url = original_url

(***************************************************************************)
(* Which paragraphs _split_sections takes for headers.                     *)
(***************************************************************************)
\* The three conditions: first line under the cap, no closing punctuation,
\* one line.
ShortUnpunctuatedLine(para) ==
    /\ ParaLen(para) < HeaderCap
    /\ AtomInfo[para[Len(para)]].last = "none"
    /\ ParaLines(para) = 1

\* The paragraph went into the text of a section, so it was not taken for a
\* header.
InSomeBody(para) ==
    \E i \in 1..Len(sections) : \A k \in 1..Len(para) : para[k] \in SeqToSet(sections[i].text)

\* C27: a paragraph is taken for a section header if and only if its first
\* line is shorter than 80 characters, does not end in sentence punctuation
\* and is its only line; nothing else decides it.
C27_HeaderIffThreeConditions ==
    textPc = "split" =>
        \A i \in 1..Len(extract) : ShortUnpunctuatedLine(extract[i]) <=> ~InSomeBody(extract[i])

(***************************************************************************)
(* _extract_teaser and _score_text_block.                                  *)
(*                                                                         *)
(* The text is a sequence of paragraphs separated by blank lines, each one *)
(* sentence closed by a full stop.  A paragraph is what the code reads of  *)
(* it: its length, the taxonomy patterns found in it, whether it holds a   *)
(* quotation or reported speech, and how many vivid_detail and             *)
(* origin_story patterns are found in it.  Scores are in tenths.           *)
(***************************************************************************)
MaxTeaserParas == 5

ParagraphFloor == 80
TeaserParagraphs == 3
TeaserSentences == 6
SentenceFloor == 40
SentenceCap == 400
PrefixCap == 600

Block(chars, pats, quote, speech, vivid, origin) ==
    [chars |-> chars, pats |-> pats, quote |-> quote, speech |-> speech,
     vivid |-> vivid, origin |-> origin]

BlockKinds ==
    { Block(60, {"u1", "u2"}, FALSE, FALSE, 0, 0),
      Block(200, {}, FALSE, FALSE, 0, 0),
      Block(200, {}, FALSE, FALSE, 0, 1),
      Block(300, {}, TRUE, FALSE, 0, 0),
      Block(200, {"u1"}, FALSE, TRUE, 4, 0),
      Block(450, {"w1"}, FALSE, FALSE, 0, 0) }

Max(a, b) == IF a >= b THEN a ELSE b

\* Lines 1258-1264: the patterns of the signals, or every secondary pattern
\* (those of vivid_detail and origin_story among them) when there are none.
TeaserPatterns(sigs) ==
    [list |-> scoring_patterns(sigs), wide |-> Len(PatternsOfAll(sigs)) = 0]

\* Lines 1222-1247, in tenths; position counts from 0.
_score_text_block(block, patterns, position, total) ==
    LET hits == Hits(block, patterns.list)
                + (IF patterns.wide THEN block.vivid + block.origin ELSE 0)
        quote_bonus == (IF block.quote THEN 25 ELSE 0) + (IF block.speech THEN 10 ELSE 0)
        vivid_bonus == Min(block.vivid * 5, 15)
        origin_bonus == Min(block.origin * 3, 9)
        pos_bonus == IF 10 * position < Max(3 * total, 10) THEN 4 ELSE 0
    IN  hits * 10 + quote_bonus + vivid_bonus + origin_bonus + pos_bonus

\* scored.sort(key=lambda x: (-x[0], x[1])) on the positions `left` of
\* `blocks`: the position with the highest score first, the earlier one on a
\* tie.
RECURSIVE RankedPositions(_, _, _)
RankedPositions(blocks, patterns, left) ==
    IF left = {} THEN <<>>
    ELSE LET Score(i) == _score_text_block(blocks[i], patterns, i - 1, Len(blocks))
             best == CHOOSE i \in left :
                         \A j \in left : \/ Score(i) > Score(j)
                                         \/ (Score(i) = Score(j) /\ i <= j)
         IN  <<best>> \o RankedPositions(blocks, patterns, left \ {best})

\* A choice that is left in score order.
AsRanked(blocks, positions) == [k \in 1..Len(positions) |-> blocks[positions[k]]]

\* sorted(..., key=lambda x: x[1]): the chosen blocks in the order they
\* have in the text.
InTextOrder(blocks, positions) ==
    LET Chosen_(i) == \E k \in 1..Len(positions) : positions[k] = i
        kept == {i \in 1..Len(blocks) : Chosen_(i)}
        Nth(n) == CHOOSE i \in kept : Cardinality({j \in kept : j < i}) = n - 1
    IN  [n \in 1..Cardinality(kept) |-> blocks[Nth(n)]]

\* The `count` best of `blocks`, in the order of the text.
BestOf(blocks, patterns, count) ==
    InTextOrder(blocks, FirstN(RankedPositions(blocks, patterns, 1..Len(blocks)), count))

\* len(text): the paragraphs and the blank lines between them.
TextChars(paras) ==
    LET n == Len(paras)
        RECURSIVE Sum(_)
        Sum(k) == IF k = 0 THEN 0 ELSE paras[k].chars + Sum(k - 1)
    IN  IF n = 0 THEN 0 ELSE Sum(n) + 2 * (n - 1)

\* Lines 1249-1299.
_extract_teaser(paras, sigs) ==
    LET patterns == TeaserPatterns(sigs)
        IsParagraph(b) == b.chars > ParagraphFloor
        IsSentence(b) == b.chars > SentenceFloor /\ b.chars < SentenceCap
        raw_paras == SelectSeq(paras, IsParagraph)
        sentences == SelectSeq(paras, IsSentence)
    IN  IF Len(paras) = 0 THEN [path |-> "empty", blocks |-> <<>>, chars |-> 0]
        ELSE IF Len(raw_paras) >= TeaserParagraphs
        THEN [path |-> "paragraphs",
              blocks |-> BestOf(raw_paras, patterns, TeaserParagraphs), chars |-> 0]
        ELSE IF Len(sentences) = 0
        THEN [path |-> "prefix", blocks |-> <<>>, chars |-> Min(PrefixCap, TextChars(paras))]
        ELSE [path |-> "sentences",
              blocks |-> BestOf(sentences, patterns, TeaserSentences), chars |-> 0]

InitTeaser ==
    /\ obit_text = <<>>
    /\ teaser_signals \in {<<>>, <<"watercooler">>}
    /\ teaser = <<>>
    /\ teaserPc = "text"
    /\ SelectIdle
    /\ ArchiveIdle
    /\ RunIdle
    /\ TextIdle
    /\ ScoreIdle
    /\ FetchIdle
    /\ ItemIdle

\* One more paragraph in the text; `at` tells paragraphs alike in everything
\* else apart.
AddTeaserParagraph ==
    /\ teaserPc = "text"
    /\ Len(obit_text) < MaxTeaserParas
    /\ \E b \in BlockKinds :
           obit_text' = Append(obit_text, [at |-> Len(obit_text) + 1] @@ b)
    /\ UNCHANGED <<teaser_signals, teaser, teaserPc, selVars, archVars, runVars,
                   textVars, scoreVars, fetchVars, itemVars>>

\* The call _extract_teaser(obit_text, teaser_signals).
ExtractTeaser ==
    /\ teaserPc = "text"
    /\ teaser' = _extract_teaser(obit_text, teaser_signals)
    /\ teaserPc' = "done"
    /\ UNCHANGED <<obit_text, teaser_signals, selVars, archVars, runVars,
                   textVars, scoreVars, fetchVars, itemVars>>

NextTeaser == AddTeaserParagraph \/ ExtractTeaser

SpecTeaser == InitTeaser /\ [][NextTeaser]_vars

\* The paragraphs of the text longer than 80 characters, in order.
LongParagraphs ==
    LET IsLong(b) == b.chars > ParagraphFloor
    IN  SelectSeq(obit_text, IsLong)

\* The block score of the n-th long paragraph.
BlockScore(n) ==
    _score_text_block(LongParagraphs[n], TeaserPatterns(teaser_signals), n - 1,
                      Len(LongParagraphs))

\* The n-th long paragraph is in the teaser.
InTeaser(n) == \E k \in 1..Len(teaser.blocks) : teaser.blocks[k] = LongParagraphs[n]

\* C28: when the text has at least 3 paragraphs longer than 80 characters,
\* the teaser is exactly 3 of them, the 3 with the highest block score, the
\* earlier paragraph winning a tie, in the order they have in the text.
C28_TopThreeInTextOrder ==
    (teaserPc = "done" /\ Len(LongParagraphs) >= TeaserParagraphs) =>
        /\ teaser.path = "paragraphs"
        /\ Len(teaser.blocks) = TeaserParagraphs
        /\ \A k \in 1..Len(teaser.blocks) : teaser.blocks[k].chars > ParagraphFloor
        /\ \A k \in 1..(Len(teaser.blocks) - 1) : teaser.blocks[k].at < teaser.blocks[k + 1].at
        /\ \A n, m \in 1..Len(LongParagraphs) :
               (InTeaser(n) /\ ~InTeaser(m)) =>
                   \/ BlockScore(n) > BlockScore(m)
                   \/ (BlockScore(n) = BlockScore(m) /\ n < m)

\* Of five paragraphs the teaser left out an early one for a later one of
\* higher score, left out a short one, decided a tie for the earlier
\* paragraph, and its best paragraph is not its first.
C28_Witness ==
    /\ teaserPc = "done"
    /\ Len(LongParagraphs) > TeaserParagraphs
    /\ Len(LongParagraphs) < Len(obit_text)
    /\ Len(teaser.blocks) = TeaserParagraphs
    /\ \E n, m \in 1..Len(LongParagraphs) :
           n < m /\ ~InTeaser(n) /\ InTeaser(m)
    /\ \E n, m \in 1..Len(LongParagraphs) :
           n < m /\ InTeaser(n) /\ ~InTeaser(m) /\ BlockScore(n) = BlockScore(m)
    /\ \E n, m \in 1..Len(LongParagraphs) :
           /\ n < m /\ InTeaser(n) /\ InTeaser(m)
           /\ BlockScore(m) > BlockScore(n)

(***************************************************************************)
(* The classification of section headers.                                  *)
(***************************************************************************)
\* The keyword classes found in the header in lower case.
KeywordClasses(header) ==
    UNION {IF AtomInfo[header[i]].kw = "both" THEN {"skip", "prefer"}
           ELSE IF AtomInfo[header[i]].kw = "none" THEN {}
           ELSE {AtomInfo[header[i]].kw} : i \in 1..Len(header)}

\* C29: a header is skip whenever it holds a skip keyword, a prefer keyword
\* beside it or not; it is preferred only if it holds a prefer keyword and
\* no skip keyword; it is normal otherwise.
C29_SkipBeforePrefer ==
    textPc = "split" =>
        \A i \in 1..Len(sections) :
            LET found == KeywordClasses(sections[i].header)
            IN  /\ "skip" \in found => sections[i].multiplier = 0
                /\ sections[i].multiplier = 2 <=> ("prefer" \in found /\ "skip" \notin found)
                /\ found = {} => sections[i].multiplier = 1

\* A document gave a skip section headed 'Death and legacy', a preferred
\* section and a normal one.
C29_Witness ==
    /\ textPc = "split"
    /\ \E i \in 1..Len(sections) :
           sections[i].header = <<"Death and legacy">> /\ sections[i].multiplier = 0
    /\ \E i \in 1..Len(sections) :
           sections[i].header = <<"Personal life">> /\ sections[i].multiplier = 2

(***************************************************************************)
(* The returned list as a part of the pool.                                *)
(***************************************************************************)
\* How many positions of seq hold the record v.
CountOf(seq, v) == Cardinality({i \in 1..Len(seq) : seq[i] = v})

\* part can be read off whole from left to right, skipping entries.
RECURSIVE InRankOrder(_, _)
InRankOrder(part, whole) ==
    IF Len(part) = 0 THEN TRUE
    ELSE IF Len(whole) = 0 THEN FALSE
    ELSE IF part[1] = whole[1] THEN InRankOrder(Tail(part), Tail(whole))
    ELSE InRankOrder(part, Tail(whole))

\* C30: every returned candidate is in the pool, no pool position is
\* returned twice, and the candidates admitted by the constrained pass come
\* first, in rank order, ahead of those the fill pass added.
C30_ReturnedFromPoolOnce ==
    selPc = "done" =>
        /\ \A i \in 1..Len(selected) :
               CountOf(selected, selected[i]) <= CountOf(ranked, selected[i])
        /\ Len(admitted) <= Len(selected)
        /\ SubSeq(selected, 1, Len(admitted)) = admitted
        /\ InRankOrder(admitted, ranked)

\* The constrained pass passed over a candidate that the fill pass then
\* added behind a lower-ranked one.
C30_Witness ==
    /\ selPc = "done"
    /\ Len(ranked) > RelaxThreshold
    /\ Cardinality(Titles(ranked)) = Len(ranked)
    /\ Len(admitted) < DigestSize
    /\ Len(selected) = DigestSize
    /\ \E i, j \in 1..Len(selected) : i < j /\ selected[i].title > selected[j].title

====
